---- MODULE Spec2Model ----
(***************************************************************************)
(* Request shaping and response unwrapping of the Pipedrive resource       *)
(* clients (DealClient, NoteClient, PipelineClient) and of the Note model. *)
(* A client call is one atomic step: it validates its arguments, builds    *)
(* the payload or the query parameters, issues at most one transport       *)
(* request and unwraps the response the transport gives back.              *)
(***************************************************************************)
EXTENDS Integers, Sequences, FiniteSets, TLC

VARIABLES
  pc,        \* "idle", "calling" (the caller settles the call) or "done"
  op,        \* the operation called
  call,      \* its arguments and what the transport does with its request
  varied,    \* how many parts of `call` differ from the baseline call
  last,      \* the position of the part changed last
  raised,    \* the class of the exception the call raised, or "none"
  message,   \* the messages of that exception
  requests,  \* the transport requests the call issued, in order
  result,    \* the value the call returned
  calls      \* the resource-client calls a tool adapter made, in order

vars == <<pc, op, call, varied, last, raised, message, requests, result, calls>>

----------------------------------------------------------------------------
(* Bounds of the model                                                     *)

\* at most MaxVaried parts of a call (its arguments, the transport's answer)
\* differ from the baseline call of its operation
MaxVaried == 3

----------------------------------------------------------------------------
(* Python scalars: None, int (also standing for float and bool), str.      *)
(* A str is a sequence of runs [c |-> character, n |-> repetitions], no    *)
(* two adjacent runs of the same character, every n >= 1.                  *)

None == [t |-> "none", i |-> 0, s |-> <<>>]
PyInt(n) == [t |-> "int", i |-> n, s |-> <<>>]
PyStr(s) == [t |-> "str", i |-> 0, s |-> s]

IsNone(v) == v.t = "none"

\* bool(v) as Python evaluates `if v:`
Truthy(v) ==
  CASE v.t = "none" -> FALSE
    [] v.t = "int" -> v.i # 0
    [] v.t = "str" -> v.s # <<>>

\* the string of the characters of cs, each once
Word(cs) == [k \in 1..Len(cs) |-> [c |-> cs[k], n |-> 1]]
\* the string of n times the character c
Rep(c, n) == IF n = 0 THEN <<>> ELSE <<[c |-> c, n |-> n]>>

\* str.isspace() of one character; "nbsp" is U+00A0, "ideosp" is U+3000
IsSpace(c) == c \in {" ", "\t", "\n", "nbsp", "ideosp"}

\* bytes of one character in UTF-8: "e'" is U+00E9, "euro" is U+20AC,
\* "smiley" is U+1F600, everything else is ASCII
Utf8Width(c) ==
  CASE c \in {"nbsp", "e'"} -> 2
    [] c \in {"ideosp", "euro"} -> 3
    [] c = "smiley" -> 4
    [] OTHER -> 1

RECURSIVE StrLen(_)
\* len(s)
StrLen(s) == IF s = <<>> THEN 0 ELSE Head(s).n + StrLen(Tail(s))

RECURSIVE Utf8Len(_)
\* len(s.encode('utf-8'))
Utf8Len(s) ==
  IF s = <<>> THEN 0 ELSE Head(s).n * Utf8Width(Head(s).c) + Utf8Len(Tail(s))

RECURSIVE LStrip(_)
LStrip(s) ==
  IF s = <<>> THEN <<>>
  ELSE IF IsSpace(Head(s).c) THEN LStrip(Tail(s)) ELSE s

RECURSIVE RStrip(_)
RStrip(s) ==
  IF s = <<>> THEN <<>>
  ELSE IF IsSpace(s[Len(s)].c) THEN RStrip(SubSeq(s, 1, Len(s) - 1)) ELSE s

\* s.strip()
Strip(s) == RStrip(LStrip(s))

\* `not v or not v.strip()` for a str or None
Blank(v) == ~Truthy(v) \/ Strip(v.s) = <<>>

----------------------------------------------------------------------------
(* Python dicts with str keys: functions from a finite set of keys.        *)

EmptyDict == [k \in {} |-> None]

\* d[k] = v
Put(d, k, v) == [x \in DOMAIN d \cup {k} |-> IF x = k THEN v ELSE d[x]]

\* `if v is not None: d[k] = v`
PutIfNotNone(d, k, v) == IF IsNone(v) THEN d ELSE Put(d, k, v)

\* `if v: d[k] = v`
PutIfTruthy(d, k, v) == IF Truthy(v) THEN Put(d, k, v) ELSE d

\* d.update(e)
Update(d, e) ==
  [x \in DOMAIN d \cup DOMAIN e |-> IF x \in DOMAIN e THEN e[x] ELSE d[x]]

\* {k: v for k, v in d.items() if v is not None}
DropNone(d) == [x \in {k \in DOMAIN d : ~IsNone(d[k])} |-> d[x]]

RECURSIVE PutAllIfNotNone(_, _, _)
\* the chain `if a[k] is not None: d[k] = a[k]` over the keys ks in order
PutAllIfNotNone(d, a, ks) ==
  IF ks = <<>> THEN d
  ELSE PutAllIfNotNone(PutIfNotNone(d, Head(ks), a[Head(ks)]), a, Tail(ks))

\* an Optional[Dict] argument: None, or the dict d
NoDict == [isNone |-> TRUE, d |-> EmptyDict]
DictOf(d) == [isNone |-> FALSE, d |-> d]
\* `if custom_fields:`
DictTruthy(cf) == ~cf.isNone /\ DOMAIN cf.d # {}

\* an Optional[List[str]] argument: None, or the list l of strs
NoList == [isNone |-> TRUE, l |-> <<>>]
ListOf(l) == [isNone |-> FALSE, l |-> l]
\* `if include_fields:`
ListTruthy(x) == ~x.isNone /\ x.l # <<>>

RECURSIVE Join(_)
\* ",".join(l)
Join(l) ==
  IF l = <<>> THEN <<>>
  ELSE IF Len(l) = 1 THEN l[1].s
  ELSE l[1].s \o Rep(",", 1) \o Join(Tail(l))

\* `if x: d[k] = ",".join(x)`
PutJoined(d, k, x) == IF ListTruthy(x) THEN Put(d, k, PyStr(Join(x.l))) ELSE d

----------------------------------------------------------------------------
(* Argument values and argument combinations the calls are made with       *)

Open == PyStr(Word(<<"o", "p", "e", "n">>))
Won == PyStr(Word(<<"w", "o", "n">>))
Lost == PyStr(Word(<<"l", "o", "s", "t">>))
Bogus == PyStr(Word(<<"b", "o", "g", "u", "s">>))
EmptyStr == PyStr(<<>>)
SpaceStr == PyStr(Rep(" ", 2))
Text == PyStr(Word(<<"T">>))
PaddedText == PyStr(Word(<<" ", "T", " ">>))
Usd == PyStr(Word(<<"U", "S", "D">>))
Date == PyStr(Word(<<"2", "0", "2", "5", "-", "0", "1", "-", "3", "1">>))
CursorX == PyStr(Word(<<"X">>))
CursorY == PyStr(Word(<<"Y">>))
Asc == PyStr(Word(<<"a", "s", "c">>))
Desc == PyStr(Word(<<"d", "e", "s", "c">>))
IdField == PyStr(Word(<<"i", "d">>))
FieldA == PyStr(Word(<<"A">>))
FieldB == PyStr(Word(<<"B">>))
TrueStr == PyStr(Word(<<"t", "r", "u", "e">>))
FalseStr == PyStr(Word(<<"f", "a", "l", "s", "e">>))
Percentage == PyStr(Word(<<"p", "e", "r", "c", "e", "n", "t", "a", "g", "e">>))
Amount == PyStr(Word(<<"a", "m", "o", "u", "n", "t">>))
Inclusive == PyStr(Word(<<"i", "n", "c", "l", "u", "s", "i", "v", "e">>))
Exclusive == PyStr(Word(<<"e", "x", "c", "l", "u", "s", "i", "v", "e">>))
NoneStr == PyStr(Word(<<"n", "o", "n", "e">>))
OneTime == PyStr(Word(<<"o", "n", "e", "-", "t", "i", "m", "e">>))
Weekly == PyStr(Word(<<"w", "e", "e", "k", "l", "y">>))
Monthly == PyStr(Word(<<"m", "o", "n", "t", "h", "l", "y">>))
Quarterly == PyStr(Word(<<"q", "u", "a", "r", "t", "e", "r", "l", "y">>))
SemiAnnually ==
  PyStr(Word(<<"s", "e", "m", "i", "-", "a", "n", "n", "u", "a", "l", "l", "y">>))
Annually == PyStr(Word(<<"a", "n", "n", "u", "a", "l", "l", "y">>))

RECURSIVE SetToSeq(_)
\* the elements of the set S in some order
SetToSeq(S) ==
  IF S = {} THEN <<>>
  ELSE LET x == CHOOSE y \in S : TRUE IN <<x>> \o SetToSeq(S \ {x})

----------------------------------------------------------------------------
(* Outcome of one client call                                              *)

\* the call raised exception class e with message m before any request
\* (the messages of the exception are kept as a set: a pydantic ValidationError
\* lists one message for every field that failed)
Raise(e, ms) == [raised |-> e, message |-> ms, requests |-> <<>>, result |-> None]

\* a ValueError raised only once the request is on its way
LateValueError(m) ==
  [raised |-> "ValueError", message |-> {m}, requests |-> <<"request">>, result |-> None]

ValueError(m) == Raise("ValueError", {m})

\* base_client.request(method, path, json_payload=payload)
JsonRequest(method, path, payload) ==
  [method |-> method, path |-> path, kw |-> "json_payload", body |-> DictOf(payload),
   version |-> "default"]

\* base_client.request(method, path, json_payload=payload, version="v1")
JsonRequestV1(method, path, payload) ==
  [JsonRequest(method, path, payload) EXCEPT !.version = "v1"]

\* base_client.request(method, path, query_params=params), params a dict or None
QueryRequest(method, path, params) ==
  [method |-> method, path |-> path, kw |-> "query_params", body |-> params,
   version |-> "default"]

\* a request path: a template and the identifiers interpolated into it
Path(tpl, ids) == [tpl |-> tpl, ids |-> ids]

\* The decoded envelope the transport returns, or the error it raises.
\* data: a missing key, null, a list of items, or an object (id) that may carry
\* an "items" list; additional_data: a missing key, null, or an object that may
\* carry next_cursor and pagination.more_items_in_collection.
AbsentData == [t |-> "absent", items |-> <<>>, has_items |-> FALSE, id |-> 0]
NullData == [AbsentData EXCEPT !.t = "null"]
ListData(l) == [AbsentData EXCEPT !.t = "list", !.items = l]
ObjectData(id) == [AbsentData EXCEPT !.t = "dict", !.id = id]
EmptyObject == ObjectData(0)
SearchData(l) == [AbsentData EXCEPT !.t = "dict", !.has_items = TRUE, !.items = l]

AbsentAd == [t |-> "absent", has_nc |-> FALSE, nc |-> None, pg |-> "absent", more |-> "absent"]
NullAd == [AbsentAd EXCEPT !.t = "null"]
EmptyAd == [AbsentAd EXCEPT !.t = "dict"]
CursorAd(c) == [EmptyAd EXCEPT !.has_nc = TRUE, !.nc = c]
PaginationAd(more) == [EmptyAd EXCEPT !.pg = "dict", !.more = more]

Envelope(success, data, ad) == [err |-> FALSE, success |-> success, data |-> data, ad |-> ad]
ApiError == [err |-> TRUE, success |-> "absent", data |-> AbsentData, ad |-> AbsentAd]

\* response_data.get("data", {}) of a create, get or update call
GetData(resp) == IF resp.data.t = "absent" THEN EmptyObject ELSE resp.data

\* the call issued req and then raised exception class e
RaiseAfter(req, e, m) ==
  [raised |-> e, message |-> {m}, requests |-> <<req>>, result |-> None]

\* the call issued req and returned v
Return(req, v) == [raised |-> "none", message |-> {}, requests |-> <<req>>, result |-> v]

\* a call that issues its request again when the transport raised
RetryOnce(req, resp, unwrapped) ==
  IF resp.err THEN [raised |-> "PipedriveAPIError", message |-> {"API error"},
                    requests |-> <<req, req>>, result |-> None]
  ELSE Return(req, unwrapped)

\* the call issued req; the transport raised, or answered resp and the call
\* returned `unwrapped`
AfterRequest(req, resp, unwrapped) ==
  IF resp.err THEN RaiseAfter(req, "PipedriveAPIError", "API error")
  ELSE Return(req, unwrapped)

----------------------------------------------------------------------------
(* DealClient                                                              *)

CreateDealOptionalTail ==
  <<"owner_id", "stage_id", "pipeline_id", "visible_to", "probability">>

\* the payload of create_deal before validation
CreateDealPayload(a) ==
  LET p0 == Put(EmptyDict, "title", a.title)
      p1 == PutIfNotNone(p0, "value", a.value)
      p2 == PutIfTruthy(p1, "currency", a.currency)
      p3 == PutAllIfNotNone(p2, a, <<"person_id", "org_id">>)
      p4 == PutIfTruthy(p3, "status", a.status)
      p5 == PutIfTruthy(p4, "expected_close_date", a.expected_close_date)
      p6 == PutAllIfNotNone(p5, a, CreateDealOptionalTail)
  IN IF DictTruthy(a.custom_fields) THEN Update(p6, a.custom_fields.d) ELSE p6

\* DealClient.create_deal
create_deal(a, resp) ==
  LET payload == CreateDealPayload(a) IN
  IF Blank(a.title) THEN ValueError("Deal title cannot be empty")
  ELSE AfterRequest(JsonRequest("POST", Path("/deals", <<>>), payload),
                    resp, GetData(resp))

UpdateDealOptional ==
  <<"title", "value", "currency", "person_id", "org_id", "status",
    "expected_close_date", "owner_id", "stage_id", "pipeline_id", "visible_to",
    "probability", "lost_reason">>

\* ["open", "won", "lost"]
StatusValues == {Open, Won, Lost}
ProbabilityMin == 0
ProbabilityMax == 100

\* the payload of update_deal before validation
UpdateDealPayload(a) ==
  LET p == PutAllIfNotNone(EmptyDict, a, UpdateDealOptional)
  IN IF DictTruthy(a.custom_fields) THEN Update(p, a.custom_fields.d) ELSE p

\* a check that never finds the payload empty
NeverEmpty(p) == FALSE

\* `if not payload`
EmptyPayload(p) == DOMAIN p = {}

\* `status is not None and status not in ["open", "won", "lost"]`
InvalidStatus(status) == ~IsNone(status) /\ status \notin StatusValues

\* `probability is not None and (probability < 0 or probability > 100)`
InvalidProbability(p) ==
  ~IsNone(p) /\ (p.i < ProbabilityMin \/ p.i > ProbabilityMax)

\* a check that lets a lost_reason through when status is omitted
LostReasonWithOtherStatus(status, lost_reason) ==
  ~IsNone(status) /\ status # Lost /\ ~IsNone(lost_reason)

\* `status != "lost" and lost_reason is not None`
LostReasonWithoutLost(status, lost_reason) == status # Lost /\ ~IsNone(lost_reason)

\* DealClient.update_deal
update_deal(a, resp) ==
  LET payload == UpdateDealPayload(a) IN
  IF a.deal_id.i <= 0 THEN ValueError("Invalid deal ID")
  ELSE IF EmptyPayload(payload)
  THEN ValueError("At least one field must be provided for updating a deal.")
  ELSE IF InvalidStatus(a.status) THEN ValueError("Invalid status value")
  ELSE IF LostReasonWithoutLost(a.status, a.lost_reason)
  THEN ValueError("Lost reason can only be set when status is 'lost'")
  ELSE IF InvalidProbability(a.probability) THEN ValueError("Invalid probability value")
  ELSE AfterRequest(JsonRequest("PATCH", Path("/deals/{deal_id}", <<a.deal_id.i>>), payload),
                    resp, GetData(resp))

\* valid_discount_types, valid_tax_methods, valid_billing_frequencies
ValidDiscountTypes == {Percentage, Amount}
ValidTaxMethods == {Inclusive, Exclusive, NoneStr}
ValidBillingFrequencies ==
  {OneTime, Weekly, Monthly, Quarterly, SemiAnnually, Annually}

BillingCyclesMax == 208

\* a check that refuses the largest number of cycles
CyclesAtOrAboveMax(c) == c.i <= 0 \/ c.i >= BillingCyclesMax

\* `billing_frequency_cycles <= 0 or billing_frequency_cycles > 208`
InvalidCycles(c) == c.i <= 0 \/ c.i > BillingCyclesMax

\* the payload of add_product_to_deal
AddProductPayload(a) ==
  LET p0 == [k \in {"product_id", "item_price", "quantity"} |-> a[k]]
      p1 == PutIfNotNone(p0, "tax", a.tax)
      p2 == PutIfTruthy(p1, "comments", a.comments)
      p3 == PutIfNotNone(p2, "discount", a.discount)
      p4 == PutIfTruthy(p3, "discount_type", a.discount_type)
      p5 == PutIfTruthy(p4, "tax_method", a.tax_method)
      p6 == PutIfNotNone(p5, "product_variation_id", a.product_variation_id)
      p7 == PutIfTruthy(p6, "billing_frequency", a.billing_frequency)
      p8 == PutIfNotNone(p7, "billing_frequency_cycles", a.billing_frequency_cycles)
  IN PutIfTruthy(p8, "billing_start_date", a.billing_start_date)

\* DealClient.add_product_to_deal
add_product_to_deal(a, resp) ==
  IF a.deal_id.i <= 0 THEN ValueError("Invalid deal ID")
  ELSE IF a.product_id.i <= 0 THEN ValueError("Invalid product ID")
  ELSE IF a.item_price.i < 0 THEN ValueError("Invalid item price")
  ELSE IF a.quantity.i <= 0 THEN ValueError("Invalid quantity")
  ELSE IF a.tax.i < 0 THEN ValueError("Invalid tax value")
  ELSE IF a.discount.i < 0 THEN ValueError("Invalid discount value")
  ELSE IF a.discount_type \notin ValidDiscountTypes
  THEN ValueError("Invalid discount type")
  ELSE IF ~IsNone(a.tax_method) /\ a.tax_method \notin ValidTaxMethods
  THEN ValueError("Invalid tax method")
  ELSE IF a.billing_frequency \notin ValidBillingFrequencies
  THEN ValueError("Invalid billing frequency")
  ELSE IF ~IsNone(a.billing_frequency_cycles) /\ InvalidCycles(a.billing_frequency_cycles)
  THEN ValueError("Invalid billing frequency cycles")
  ELSE AfterRequest(
         JsonRequest("POST", Path("/deals/{deal_id}/products", <<a.deal_id.i>>),
                     AddProductPayload(a)),
         resp, GetData(resp))

UpdateProductOptional ==
  <<"item_price", "quantity", "tax", "comments", "discount", "discount_type",
    "tax_method", "is_enabled", "product_variation_id", "billing_frequency",
    "billing_frequency_cycles", "billing_start_date">>

\* DealClient.update_product_in_deal: each supplied field is checked, then put
\* into the payload, in the order of UpdateProductOptional
update_product_in_deal(a, resp) ==
  LET payload == PutAllIfNotNone(EmptyDict, a, UpdateProductOptional) IN
  IF a.deal_id.i <= 0 THEN ValueError("Invalid deal ID")
  ELSE IF a.product_attachment_id.i <= 0
  THEN ValueError("Invalid product attachment ID")
  ELSE IF ~IsNone(a.item_price) /\ a.item_price.i < 0
  THEN ValueError("Invalid item price")
  ELSE IF ~IsNone(a.quantity) /\ a.quantity.i <= 0 THEN ValueError("Invalid quantity")
  ELSE IF ~IsNone(a.tax) /\ a.tax.i < 0 THEN ValueError("Invalid tax value")
  ELSE IF ~IsNone(a.discount) /\ a.discount.i < 0
  THEN ValueError("Invalid discount value")
  ELSE IF ~IsNone(a.discount_type) /\ a.discount_type \notin ValidDiscountTypes
  THEN ValueError("Invalid discount type")
  ELSE IF ~IsNone(a.tax_method) /\ a.tax_method \notin ValidTaxMethods
  THEN ValueError("Invalid tax method")
  ELSE IF ~IsNone(a.product_variation_id) /\ a.product_variation_id.i <= 0
  THEN ValueError("Invalid product variation ID")
  ELSE IF ~IsNone(a.billing_frequency)
          /\ a.billing_frequency \notin ValidBillingFrequencies
  THEN ValueError("Invalid billing frequency")
  ELSE IF ~IsNone(a.billing_frequency_cycles) /\ InvalidCycles(a.billing_frequency_cycles)
  THEN ValueError("Invalid billing frequency cycles")
  ELSE IF EmptyPayload(payload)
  THEN ValueError("At least one field must be provided for updating a product in a deal.")
  ELSE AfterRequest(
         JsonRequest("PATCH", Path("/deals/{deal_id}/products/{product_attachment_id}",
                                   <<a.deal_id.i, a.product_attachment_id.i>>),
                     payload),
         resp, GetData(resp))

\* bool(data) of an envelope's data
DataTruthy(d) ==
  \/ d.t = "list" /\ d.items # <<>>
  \/ d.t = "dict" /\ (d.id # 0 \/ d.has_items)

\* response_data.get("data", [])
GetDataList(resp) == IF resp.data.t = "absent" THEN ListData(<<>>) ELSE resp.data

\* response_data.get("additional_data", {})
GetAdditionalData(resp) == IF resp.ad.t = "absent" THEN EmptyAd ELSE resp.ad

\* an unwrapping that drops the cursor
NoNextCursor(ad) == None

\* additional_data.get("next_cursor") of a dict
GetNextCursor(ad) == IF ad.has_nc THEN ad.nc ELSE None

\* `additional_data.get("next_cursor") if isinstance(additional_data, dict) else None`
NextCursorIfDict(ad) == IF ad.t = "dict" THEN GetNextCursor(ad) ELSE None

\* the pair a cursor-based list operation returns
Page(items, cursor) == [items |-> items, cursor |-> cursor]

ListDealsParams ==
  {"limit", "cursor", "filter_id", "owner_id", "person_id", "org_id", "pipeline_id",
   "stage_id", "status", "sort_by", "sort_direction", "updated_since",
   "updated_until"}

\* final_query_params of list_deals
ListDealsQuery(a) ==
  LET q0 == [k \in ListDealsParams |-> a[k]]
      q1 == PutJoined(q0, "include_fields", a.include_fields)
      q2 == PutJoined(q1, "custom_fields", a.custom_fields_keys)
  IN DropNone(q2)

\* DealClient.list_deals
list_deals(a, resp) ==
  IF a.limit.i < 1 THEN ValueError("Invalid limit")
  ELSE IF InvalidStatus(a.status) THEN ValueError("Invalid status value")
  ELSE IF ~IsNone(a.sort_direction) /\ a.sort_direction \notin {Asc, Desc}
  THEN ValueError("Invalid sort_direction")
  ELSE
    LET q == ListDealsQuery(a)
        req == QueryRequest("GET", Path("/deals", <<>>),
                            IF DOMAIN q # {} THEN DictOf(q) ELSE NoDict)
        deals_list == GetDataList(resp)
        next_cursor == NextCursorIfDict(GetAdditionalData(resp))
    IN IF resp.err THEN RaiseAfter(req, "PipedriveAPIError", "API error")
       ELSE IF deals_list.t = "null"
       THEN RaiseAfter(req, "TypeError", "object of type 'NoneType' has no len()")
       ELSE Return(req, Page(deals_list, next_cursor))

SearchDealsParams ==
  {"term", "exact_match", "limit", "cursor", "person_id", "organization_id", "status"}

\* final_query_params of search_deals
SearchDealsQuery(a) ==
  LET q0 == [k \in SearchDealsParams |->
               IF k = "exact_match"
               THEN (IF Truthy(a.exact_match) THEN TrueStr ELSE FalseStr)
               ELSE a[k]]
      q1 == PutJoined(q0, "fields", a.fields)
      q2 == PutJoined(q1, "include_fields", a.include_fields)
  IN DropNone(q2)

\* an unwrapping that returns the outer data object
SearchOuterData(data) == data

\* `data.get("items", []) if isinstance(data, dict) else []`
SearchItems(data) ==
  IF data.t = "dict" /\ data.has_items THEN ListData(data.items) ELSE ListData(<<>>)

\* DealClient.search_deals
search_deals(a, resp) ==
  IF ~Truthy(a.term) THEN ValueError("Search term cannot be empty")
  ELSE IF ~Truthy(a.exact_match) /\ StrLen(a.term.s) < 2
  THEN ValueError("Search term must be at least 2 characters long when exact_match is False")
  ELSE IF a.limit.i < 1 THEN ValueError("Invalid limit")
  ELSE IF InvalidStatus(a.status) THEN ValueError("Invalid status value")
  ELSE
    LET req == QueryRequest("GET", Path("/deals/search", <<>>),
                            DictOf(SearchDealsQuery(a)))
        items == SearchItems(GetDataList(resp))
        next_cursor == NextCursorIfDict(GetAdditionalData(resp))
    IN AfterRequest(req, resp, Page(items, next_cursor))

----------------------------------------------------------------------------
(* PipelineClient                                                          *)

\* params of list_pipelines
ListPipelinesQuery(a) ==
  LET q0 == Put(EmptyDict, "limit", a.limit)
      q1 == PutIfTruthy(q0, "cursor", a.cursor)
      q2 == PutIfTruthy(q1, "sort_by", a.sort_by)
  IN PutIfTruthy(q2, "sort_direction", a.sort_direction)

\* `response_data.get("data", []) or []`, then
\* `response_data.get("additional_data", {}).get("next_cursor")`
UnwrapPage(req, resp) ==
  LET data == GetDataList(resp)
      items == IF DataTruthy(data) THEN data ELSE ListData(<<>>)
      ad == GetAdditionalData(resp)
  IN IF resp.err THEN RaiseAfter(req, "PipedriveAPIError", "API error")
     ELSE IF ad.t = "null"
     THEN RaiseAfter(req, "AttributeError", "'NoneType' object has no attribute 'get'")
     ELSE Return(req, Page(items, GetNextCursor(ad)))

\* PipelineClient.list_pipelines
list_pipelines(a, resp) ==
  UnwrapPage(QueryRequest("GET", Path("/pipelines", <<>>), DictOf(ListPipelinesQuery(a))),
             resp)

\* params of list_stages
ListStagesQuery(a) ==
  LET q0 == Put(EmptyDict, "limit", a.limit)
      q1 == PutIfTruthy(q0, "pipeline_id", a.pipeline_id)
      q2 == PutIfTruthy(q1, "cursor", a.cursor)
      q3 == PutIfTruthy(q2, "sort_by", a.sort_by)
  IN PutIfTruthy(q3, "sort_direction", a.sort_direction)

\* PipelineClient.list_stages
list_stages(a, resp) ==
  UnwrapPage(QueryRequest("GET", Path("/stages", <<>>), DictOf(ListStagesQuery(a))),
             resp)

----------------------------------------------------------------------------
(* Note model and NoteClient                                               *)

MaxContentBytes == 100000

\* a size check that counts characters where the source counts bytes
ContentErrorsByCharacters(v) ==
  IF Blank(v) THEN {"Note content cannot be empty"}
  ELSE IF StrLen(v.s) > MaxContentBytes
  THEN {"Note content exceeds maximum size of 100KB"}
  ELSE {}

\* Note.validate_content: the messages it raises for content v
ContentErrors(v) ==
  IF Blank(v) THEN {"Note content cannot be empty"}
  ELSE IF Utf8Len(v.s) > MaxContentBytes
  THEN {"Note content exceeds maximum size of 100KB"}
  ELSE {}

PinFlags ==
  <<"pinned_to_lead_flag", "pinned_to_deal_flag", "pinned_to_person_flag",
    "pinned_to_organization_flag", "pinned_to_project_flag">>

\* Field(None, ge=0, le=1) of one pinning flag
FlagErrors(v) ==
  IF IsNone(v) THEN {}
  ELSE IF v.i < 0 THEN {"Input should be greater than or equal to 0"}
  ELSE IF v.i > 1 THEN {"Input should be less than or equal to 1"}
  ELSE {}

\* the errors of the field validation of Note(**a)
FieldErrors(a) ==
  ContentErrors(a.content) \cup UNION {FlagErrors(a[PinFlags[k]]) : k \in 1..Len(PinFlags)}

EntityFields == <<"lead_id", "deal_id", "person_id", "org_id", "project_id">>

\* attached_count of Note.validate_entity_attachment
AttachedCount(a) == Cardinality({k \in 1..Len(EntityFields) : ~IsNone(a[EntityFields[k]])})

\* a validator that accepts several attachments
AttachmentErrorsWhenNone(a) ==
  IF AttachedCount(a) = 0 THEN {"Note must be attached to exactly one entity"} ELSE {}

\* Note.validate_entity_attachment: the messages it raises
AttachmentErrors(a) ==
  IF AttachedCount(a) = 0 THEN {"Note must be attached to exactly one entity"}
  ELSE IF AttachedCount(a) > 1 THEN {"Note can only be attached to one entity at a time"}
  ELSE {}

\* Note(**a): the messages of the ValidationError, none when the note is
\* built; the model validator runs only after every field validated
NoteErrors(a) == IF FieldErrors(a) # {} THEN FieldErrors(a) ELSE AttachmentErrors(a)

NoteApiFields ==
  {"content", "lead_id", "deal_id", "person_id", "org_id", "project_id", "user_id",
   "pinned_to_lead_flag", "pinned_to_deal_flag", "pinned_to_person_flag",
   "pinned_to_organization_flag", "pinned_to_project_flag"}

\* Note.to_api_dict(exclude_none=True)
to_api_dict(a) == DropNone([k \in NoteApiFields |-> a[k]])

\* NoteClient.create_note
create_note(a, resp) ==
  IF NoteErrors(a) # {} THEN Raise("ValidationError", NoteErrors(a))
  ELSE AfterRequest(JsonRequestV1("POST", Path("/notes", <<>>), to_api_dict(a)),
                    resp, GetData(resp))

UpdateNoteOptional ==
  <<"content", "lead_id", "deal_id", "person_id", "org_id", "project_id",
    "pinned_to_lead_flag", "pinned_to_deal_flag", "pinned_to_person_flag",
    "pinned_to_organization_flag", "pinned_to_project_flag">>

\* NoteClient.update_note
update_note(a, resp) ==
  LET payload == PutAllIfNotNone(EmptyDict, a, UpdateNoteOptional) IN
  IF EmptyPayload(payload)
  THEN ValueError("At least one field must be provided for update")
  ELSE AfterRequest(
         JsonRequestV1("PUT", Path("/notes/{note_id}", <<a.note_id.i>>), payload),
         resp, GetData(resp))

----------------------------------------------------------------------------
(* Read, delete and label operations of the clients                        *)

\* base_client.request(method, path) and base_client.request(method, path, version="v1")
PlainRequest(method, path, version) ==
  [method |-> method, path |-> path, kw |-> "none", body |-> NoDict, version |-> version]

\* DealClient.get_deal
get_deal(a, resp) ==
  IF a.deal_id.i <= 0 THEN ValueError("Invalid deal ID")
  ELSE
    LET q0 == PutJoined(EmptyDict, "include_fields", a.include_fields)
        q == PutJoined(q0, "custom_fields", a.custom_fields_keys)
    IN AfterRequest(QueryRequest("GET", Path("/deals/{deal_id}", <<a.deal_id.i>>),
                                 IF DOMAIN q # {} THEN DictOf(q) ELSE NoDict),
                    resp, GetData(resp))

\* `{"id": id, "error_details": response_data}`
ErrorDetails(id, resp) == [t |-> "error_details", id |-> id, error_details |-> resp]

\* `response_data.get("data", {}) if response_data.get("success") else {"id": ..., ...}`
DataIfSuccess(id, resp) ==
  IF resp.success = "true" THEN GetData(resp) ELSE ErrorDetails(id, resp)

\* DealClient.delete_deal
delete_deal(a, resp) ==
  IF a.deal_id.i <= 0 THEN ValueError("Invalid deal ID")
  ELSE AfterRequest(PlainRequest("DELETE", Path("/deals/{deal_id}", <<a.deal_id.i>>),
                                 "default"),
                    resp, DataIfSuccess(a.deal_id.i, resp))

\* DealClient.delete_product_from_deal
delete_product_from_deal(a, resp) ==
  IF a.deal_id.i <= 0 THEN ValueError("Invalid deal ID")
  ELSE IF a.product_attachment_id.i <= 0 THEN ValueError("Invalid product attachment ID")
  ELSE AfterRequest(
         PlainRequest("DELETE", Path("/deals/{deal_id}/products/{product_attachment_id}",
                                     <<a.deal_id.i, a.product_attachment_id.i>>),
                      "default"),
         resp, DataIfSuccess(a.product_attachment_id.i, resp))

\* the deal fields an answer of /dealFields lists: each has a key and may have
\* options (a list, null or no such entry)
LabelField(options) == [key |-> "label", options |-> options]
OtherField == [key |-> "other", options |-> ListOf(<<9>>)]

\* the options of the first field whose key is "label", [] when there is none
RECURSIVE LabelOptions(_)
LabelOptions(fields) ==
  IF fields = <<>> THEN ListData(<<>>)
  ELSE IF Head(fields).key = "label"
  THEN (IF ListTruthy(Head(fields).options) THEN ListData(Head(fields).options.l)
        ELSE ListData(<<>>))
  ELSE LabelOptions(Tail(fields))

\* DealClient.get_deal_labels
get_deal_labels(a, resp) ==
  LET data == GetDataList(resp)
      fields == IF DataTruthy(data) THEN data.items ELSE <<>>
  IN AfterRequest(QueryRequest("GET", Path("/dealFields", <<>>),
                               DictOf(Put(EmptyDict, "limit", PyInt(500)))),
                  resp, LabelOptions(fields))

\* a payload that carries the name as given
LabelPayloadAsGiven(label) == ListOf(<<[label |-> label]>>)

\* `[{"label": label.strip()}]`
LabelPayload(label) == ListOf(<<[label |-> PyStr(Strip(label.s))]>>)

MaxLabelLength == 255

\* DealClient.create_deal_label
create_deal_label(a, resp) ==
  IF Blank(a.label) THEN ValueError("Label name cannot be empty")
  ELSE IF StrLen(a.label.s) > MaxLabelLength
  THEN ValueError("Label name must be 255 characters or fewer")
  ELSE
    LET req == [method |-> "POST", path |-> Path("/dealFields/label/options", <<>>),
                kw |-> "json_payload",
                body |-> LabelPayload(a.label),
                version |-> "default"]
        data == GetDataList(resp)
    IN AfterRequest(req, resp,
                    IF DataTruthy(data) THEN ObjectData(Head(data.items)) ELSE EmptyObject)

\* PipelineClient.get_pipeline
get_pipeline(a, resp) ==
  AfterRequest(PlainRequest("GET", Path("/pipelines/{pipeline_id}", <<a.pipeline_id.i>>),
                            "default"),
               resp, GetData(resp))

\* PipelineClient.get_stage
get_stage(a, resp) ==
  AfterRequest(PlainRequest("GET", Path("/stages/{stage_id}", <<a.stage_id.i>>), "default"),
               resp, GetData(resp))

\* UserClient.get_user
get_user(a, resp) ==
  AfterRequest(PlainRequest("GET", Path("/users/{user_id}", <<a.user_id.i>>), "v1"),
               resp, GetData(resp))

\* NoteClient.get_note
get_note(a, resp) ==
  AfterRequest(PlainRequest("GET", Path("/notes/{note_id}", <<a.note_id.i>>), "v1"),
               resp, GetData(resp))

\* NoteClient.delete_note
delete_note(a, resp) ==
  AfterRequest(PlainRequest("DELETE", Path("/notes/{note_id}", <<a.note_id.i>>), "v1"),
               resp, GetData(resp))

\* the pair an offset-based list operation returns
OffsetPage(items, has_more) == [items |-> items, has_more |-> has_more]

\* `additional_data.get("pagination", {}).get("more_items_in_collection", False)`
MoreItems(ad) == ad.pg = "dict" /\ ad.more = "true"

\* how a call of request(method, path, json_payload?, query_params?, version?)
\* may hand over a body: under one of the two keywords, or not at all
TransportKeywords == {"none", "json_payload", "query_params"}

\* list_notes and list_comments from the call of the transport on: a call
\* that does not bind to the transport's parameters raises TypeError and
\* nothing is transmitted, otherwise the answer is unwrapped
UnwrapOffsetPage(req, resp) ==
  LET ad == GetAdditionalData(resp) IN
  IF req.kw \notin TransportKeywords
  THEN RaiseAfter(req, "TypeError", "request() got an unexpected keyword argument")
  ELSE IF resp.err THEN RaiseAfter(req, "PipedriveAPIError", "API error")
  ELSE IF ad.t = "null" \/ ad.pg = "null"
  THEN RaiseAfter(req, "AttributeError", "'NoneType' object has no attribute 'get'")
  ELSE Return(req, OffsetPage(GetDataList(resp), MoreItems(ad)))

ListNotesOptional ==
  <<"user_id", "deal_id", "person_id", "org_id", "lead_id", "pinned_to_lead_flag",
    "pinned_to_deal_flag", "pinned_to_person_flag", "pinned_to_organization_flag">>

\* params of list_notes
ListNotesParams(a) ==
  LET p0 == PutAllIfNotNone([k \in {"start", "limit"} |-> a[k]], a, ListNotesOptional)
      p1 == PutIfTruthy(p0, "sort", a.sort)
      p2 == PutIfTruthy(p1, "start_date", a.start_date)
  IN PutIfTruthy(p2, "end_date", a.end_date)

\* NoteClient.list_notes
list_notes(a, resp) ==
  UnwrapOffsetPage([method |-> "GET", path |-> Path("/notes", <<>>), kw |-> "params",
                    body |-> DictOf(ListNotesParams(a)), version |-> "v1"],
                   resp)

----------------------------------------------------------------------------
(* CommentClient                                                           *)

\* CommentClient.add_comment
add_comment(a, resp) ==
  AfterRequest(JsonRequestV1("POST", Path("/notes/{note_id}/comments", <<a.note_id.i>>),
                             Put(EmptyDict, "content", a.content)),
               resp, GetData(resp))

\* CommentClient.get_comment
get_comment(a, resp) ==
  AfterRequest(PlainRequest("GET", Path("/notes/{note_id}/comments/{comment_id}",
                                        <<a.note_id.i, a.comment_id.i>>), "v1"),
               resp, GetData(resp))

\* CommentClient.update_comment
update_comment(a, resp) ==
  AfterRequest(JsonRequestV1("PUT", Path("/notes/{note_id}/comments/{comment_id}",
                                         <<a.note_id.i, a.comment_id.i>>),
                             Put(EmptyDict, "content", a.content)),
               resp, GetData(resp))

\* CommentClient.delete_comment
delete_comment(a, resp) ==
  AfterRequest(PlainRequest("DELETE", Path("/notes/{note_id}/comments/{comment_id}",
                                           <<a.note_id.i, a.comment_id.i>>), "v1"),
               resp, GetData(resp))

\* CommentClient.list_comments
list_comments(a, resp) ==
  UnwrapOffsetPage(
    [QueryRequest("GET", Path("/notes/{note_id}/comments", <<a.note_id.i>>),
                  DictOf([k \in {"start", "limit"} |-> a[k]]))
       EXCEPT !.version = "v1"],
    resp)

----------------------------------------------------------------------------
(* Tool adapters: shared helpers                                           *)

Digits == <<"0", "1", "2", "3", "4", "5", "6", "7", "8", "9">>

IsDigit(c) == \E k \in 1..10 : Digits[k] = c

DigitValue(c) == (CHOOSE k \in 1..10 : Digits[k] = c) - 1

\* a string of decimal digits only
IsNumeric(s) == s # <<>> /\ \A k \in 1..Len(s) : IsDigit(s[k].c)

RECURSIVE ParseDigits(_, _)
\* the integer a string of decimal digits denotes, `acc` being the value of
\* the digits read so far
ParseDigits(s, acc) ==
  IF s = <<>> THEN acc
  ELSE ParseDigits(IF Head(s).n = 1 THEN Tail(s)
                   ELSE <<[Head(s) EXCEPT !.n = @ - 1]>> \o Tail(s),
                   acc * 10 + DigitValue(Head(s).c))

\* the text of an error: the pieces it is put together from, in order
RequiredError(field) == <<field, " is ", "required">>
NumericError(field) == <<field, " must be a ", "numeric", " string">>

\* convert_id_string(id_str, field_name): the pair (integer, error), one of
\* them None; the strings it is given carry no sign and no padding around digits
convert_id_string(v, field) ==
  IF IsNone(v) \/ Strip(v.s) = <<>> THEN [value |-> None, error |-> RequiredError(field)]
  ELSE IF ~IsNumeric(v.s) THEN [value |-> None, error |-> NumericError(field)]
  ELSE [value |-> PyInt(ParseDigits(v.s, 0)), error |-> <<>>]

\* format_tool_response(success, data, error_message): the envelope, as the
\* object its JSON text denotes
format_tool_response(success, data, error_message) ==
  IF success THEN [success |-> TRUE, data |-> data, has_error |-> FALSE, error |-> <<>>]
  ELSE [success |-> FALSE, data |-> data, has_error |-> TRUE, error |-> error_message]

\* `e.response_data` of a PipedriveAPIError
ResponseData == [t |-> "response_data"]

\* a call of a resource-client method, before it is made
ClientCall(name, a) == [name |-> name, args |-> a]

\* the call c once made, with the class of the exception it raised or "none"
Made(c, e) == c @@ [raised |-> e]

\* the adapter returned `env` after the client calls cs and the requests rs
Responded(cs, rs, env) ==
  [raised |-> "none", message |-> {}, requests |-> rs, result |-> env, calls |-> cs]

\* `return format_tool_response(False, error_message=error)` before any client call
Rejected(error) == Responded(<<>>, <<>>, format_tool_response(FALSE, None, error))

\* `str(e)`
ErrorText(o) == SetToSeq(o.message)

\* an except clause: `except class as e` answering prefix + str(e), with
\* e.response_data as data or without data
Clause(class, prefix, with_data) ==
  [class |-> class, prefix |-> prefix, with_data |-> with_data]

\* pydantic's ValidationError is a ValueError; every class modelled is an Exception
Catches(h, e) ==
  h.class = "Exception" \/ h.class = e \/ (h.class = "ValueError" /\ e = "ValidationError")

RECURSIVE Handler(_, _)
\* the first except clause of hs that catches exception class e
Handler(hs, e) == IF Catches(Head(hs), e) THEN Head(hs) ELSE Handler(Tail(hs), e)

\* except clauses that let every exception of the client call through
Uncaught(hs, cs, o) == o @@ [calls |-> cs]

\* the except clauses hs of an adapter, the client calls cs made and the last
\* of them having raised as o tells
Except(hs, cs, o) ==
  LET h == Handler(hs, o.raised) IN
  Responded(cs, o.requests,
            format_tool_response(FALSE, IF h.with_data THEN ResponseData ELSE None,
                                 h.prefix \o ErrorText(o)))

\* the try block from the client call c on: o is what the call did, env the
\* envelope returned when it returns
Try(hs, c, o, env) ==
  IF o.raised = "none" THEN Responded(<<Made(c, "none")>>, o.requests, env)
  ELSE Except(hs, <<Made(c, o.raised)>>, o)

\* `format_tool_response(success=True, data=<what the client returned>)`
Success(o) == format_tool_response(TRUE, IF o.raised = "none" THEN o.result ELSE None, <<>>)

\* `x.strip() if x and x.strip() else None`
StrippedOrNone(v) == IF Truthy(v) /\ Strip(v.s) # <<>> THEN PyStr(Strip(v.s)) ELSE None

\* `if x_str: x_int, error = convert_id_string(x_str, field)`, else None and no error
ConvertIfTruthy(v, field) ==
  IF Truthy(v) THEN convert_id_string(v, field) ELSE [value |-> None, error |-> <<>>]

RECURSIVE FirstError(_, _)
\* the error of the first conversion, in the order fs, that failed
FirstError(conv, fs) ==
  IF fs = <<>> THEN <<>>
  ELSE IF conv[Head(fs)].error # <<>> THEN conv[Head(fs)].error
  ELSE FirstError(conv, Tail(fs))

RECURSIVE FirstTruthy(_, _)
\* the first field of fs whose value in a is truthy, "none" when there is none
FirstTruthy(a, fs) ==
  IF fs = <<>> THEN "none"
  ELSE IF Truthy(a[Head(fs)]) THEN Head(fs) ELSE FirstTruthy(a, Tail(fs))

\* the pinned flag of each entity field in fs
FlagOf ==
  [lead_id |-> "pinned_to_lead_flag", deal_id |-> "pinned_to_deal_flag",
   person_id |-> "pinned_to_person_flag", org_id |-> "pinned_to_organization_flag",
   project_id |-> "pinned_to_project_flag"]

\* the flags an adapter passes on: `value` on the flag of entity `target`
PinOn(fs, target, value) ==
  [g \in {FlagOf[f] : f \in {fs[k] : k \in 1..Len(fs)}} |->
     IF target # "none" /\ g = FlagOf[target] THEN value ELSE None]

----------------------------------------------------------------------------
(* Tool adapters of notes and comments                                     *)

NoteToolIds == <<"deal_id", "person_id", "org_id", "project_id", "user_id">>

ApiErrorClause == Clause("PipedriveAPIError", <<"Pipedrive API error: ">>, FALSE)

\* create_note_in_pipedrive
create_note_in_pipedrive(a, resp) ==
  LET lead == StrippedOrNone(a.lead_id)
      conv == [f \in {NoteToolIds[k] : k \in 1..5} |->
                 ConvertIfTruthy(StrippedOrNone(a[f]), f)]
      error == FirstError(conv, NoteToolIds)
      ids == [lead_id |-> lead] @@ [f \in DOMAIN conv |-> conv[f].value]
      target == IF Truthy(a.pinned) THEN FirstTruthy(ids, EntityFields) ELSE "none"
      ca == [content |-> a.content] @@ ids @@ PinOn(EntityFields, target, PyInt(1))
      o == create_note(ca, resp)
  IN IF error # <<>> THEN Rejected(error)
     ELSE Try(<<Clause("ValidationError", <<"Validation error: ">>, FALSE), ApiErrorClause,
                Clause("Exception", <<"Unexpected error creating note: ">>, FALSE)>>,
              ClientCall("create_note", ca), o, Success(o))

\* get_note_from_pipedrive
get_note_from_pipedrive(a, resp) ==
  LET id == convert_id_string(a.note_id, "note_id")
      ca == [note_id |-> id.value]
      o == get_note(ca, resp)
  IN IF id.error # <<>> THEN Rejected(id.error)
     ELSE Try(<<ApiErrorClause,
                Clause("Exception", <<"Unexpected error retrieving note: ">>, FALSE)>>,
              ClientCall("get_note", ca), o, Success(o))

\* update_note_in_pipedrive
update_note_in_pipedrive(a, resp) ==
  LET id == convert_id_string(a.note_id, "note_id")
      lead == StrippedOrNone(a.lead_id)
      fs == SubSeq(NoteToolIds, 1, 4)
      conv == [f \in {fs[k] : k \in 1..4} |-> ConvertIfTruthy(StrippedOrNone(a[f]), f)]
      error == IF id.error # <<>> THEN id.error ELSE FirstError(conv, fs)
      ids == [lead_id |-> lead] @@ [f \in DOMAIN conv |-> conv[f].value]
      target == FirstTruthy(ids, EntityFields)
      pin_value == IF Truthy(a.pinned) THEN PyInt(1) ELSE PyInt(0)
      flags == IF IsNone(a.pinned) THEN PinOn(EntityFields, "none", None)
               ELSE IF target = "none" THEN [g \in DOMAIN PinOn(EntityFields, "none", None) |-> pin_value]
               ELSE PinOn(EntityFields, target, pin_value)
      ca == [note_id |-> id.value, content |-> a.content] @@ ids @@ flags
      o == update_note(ca, resp)
  IN IF error # <<>> THEN Rejected(error)
     ELSE Try(<<Clause("ValueError", <<"Validation error: ">>, FALSE), ApiErrorClause,
                Clause("Exception", <<"Unexpected error updating note: ">>, FALSE)>>,
              ClientCall("update_note", ca), o, Success(o))

\* delete_note_from_pipedrive
delete_note_from_pipedrive(a, resp) ==
  LET id == convert_id_string(a.note_id, "note_id")
      ca == [note_id |-> id.value]
      o == delete_note(ca, resp)
  IN IF id.error # <<>> THEN Rejected(id.error)
     ELSE Try(<<ApiErrorClause,
                Clause("Exception", <<"Unexpected error deleting note: ">>, FALSE)>>,
              ClientCall("delete_note", ca), o, Success(o))

AddTime == PyStr(Word(<<"a", "d", "d", "_", "t", "i", "m", "e">>))
UpdateTime == PyStr(Word(<<"u", "p", "d", "a", "t", "e", "_", "t", "i", "m", "e">>))
Descending(v) == PyStr(Word(<<"-">>) \o v.s)

\* valid_sort_fields of list_notes_in_pipedrive
ValidNoteSorts == {AddTime, UpdateTime, Descending(AddTime), Descending(UpdateTime)}

\* `start < 0`, then `limit <= 0 or limit > 500`
OffsetError(a) ==
  IF a.start.i < 0 THEN <<"start must be non-negative">>
  ELSE IF a.limit.i <= 0 \/ a.limit.i > 500 THEN <<"limit must be between 1 and 500">>
  ELSE <<>>

\* the data of a list envelope: the items under `key`, their count, has_more,
\* and start, limit and has_more again under "pagination"
OffsetListing(key, page, a) ==
  [key |-> key, items |-> page.items, count |-> Len(page.items.items),
   has_more |-> page.has_more,
   pagination |-> [start |-> a.start, limit |-> a.limit, has_more |-> page.has_more]]

\* the end of the try block of a list adapter: `len(...)` of the client's list
\* raises TypeError when the list is None
ListTry(hs, c, o, key, a) ==
  IF o.raised = "none" /\ o.result.items.t = "null"
  THEN Except(hs, <<Made(c, "none")>>, [o EXCEPT !.raised = "TypeError",
                                   !.message = {"object of type 'NoneType' has no len()"}])
  ELSE Try(hs, c, o,
           format_tool_response(TRUE, IF o.raised = "none"
                                      THEN OffsetListing(key, o.result, a) ELSE None, <<>>))

\* list_notes_in_pipedrive
list_notes_in_pipedrive(a, resp) ==
  LET fs == <<"user_id", "deal_id", "person_id", "org_id">>
      conv == [f \in {fs[k] : k \in 1..4} |-> ConvertIfTruthy(a[f], f)]
      lead == IF Truthy(a.lead_id) THEN PyStr(Strip(a.lead_id.s)) ELSE None
      idError == FirstError(conv, fs)
      error == IF idError # <<>> THEN idError
               ELSE IF OffsetError(a) # <<>> THEN OffsetError(a)
               ELSE IF Truthy(a.sort) /\ a.sort \notin ValidNoteSorts
               THEN <<"Invalid sort field. Must be one of: ",
                      "add_time, update_time, -add_time, -update_time">>
               ELSE <<>>
      ids == [lead_id |-> lead] @@ [f \in DOMAIN conv |-> conv[f].value]
      entities == SubSeq(EntityFields, 1, 4)
      target == IF Truthy(a.pinned_only) THEN FirstTruthy(ids, entities) ELSE "none"
      ca == ids @@ PinOn(entities, target, PyInt(1))
            @@ [k \in {"start", "limit", "sort", "start_date", "end_date"} |-> a[k]]
      o == list_notes(ca, resp)
  IN IF error # <<>> THEN Rejected(error)
     ELSE ListTry(<<ApiErrorClause,
                    Clause("Exception", <<"Unexpected error listing notes: ">>, FALSE)>>,
                  ClientCall("list_notes", ca), o, "notes", a)

\* what an instance of NoteClient has: the attribute set by __init__ and the
\* methods of the class
NoteClientAttributes ==
  {"base_client", "create_note", "get_note", "update_note", "delete_note", "list_notes"}

\* `client.notes.comments.<operation>(...)` inside the try block with except
\* clauses hs: out is the rest of the try block once the lookup succeeds
ViaComments(hs, out) ==
  IF "comments" \in NoteClientAttributes THEN out
  ELSE Except(hs, <<>>,
              [raised |-> "AttributeError",
               message |-> {"'NoteClient' object has no attribute 'comments'"},
               requests |-> <<>>, result |-> None])

\* `if not content or not content.strip()`
EmptyComment(a) == ~Truthy(a.content) \/ Strip(a.content.s) = <<>>

\* add_comment_to_note_in_pipedrive
add_comment_to_note_in_pipedrive(a, resp) ==
  LET id == convert_id_string(a.note_id, "note_id")
      ca == [note_id |-> id.value, content |-> a.content]
      o == add_comment(ca, resp)
  IN IF id.error # <<>> THEN Rejected(id.error)
     ELSE IF EmptyComment(a) THEN Rejected(<<"Comment content cannot be empty">>)
     ELSE LET hs == <<ApiErrorClause,
                      Clause("Exception", <<"Unexpected error adding comment: ">>, FALSE)>>
          IN ViaComments(hs, Try(hs, ClientCall("add_comment", ca), o, Success(o)))

\* the conversions of note_id and then comment_id
CommentIds(a) ==
  [f \in {"note_id", "comment_id"} |-> convert_id_string(a[f], f)]

\* update_comment_on_note_in_pipedrive
update_comment_on_note_in_pipedrive(a, resp) ==
  LET conv == CommentIds(a)
      error == FirstError(conv, <<"note_id", "comment_id">>)
      ca == [note_id |-> conv.note_id.value, comment_id |-> conv.comment_id.value,
             content |-> a.content]
      o == update_comment(ca, resp)
  IN IF error # <<>> THEN Rejected(error)
     ELSE IF EmptyComment(a) THEN Rejected(<<"Comment content cannot be empty">>)
     ELSE LET hs == <<ApiErrorClause,
                      Clause("Exception", <<"Unexpected error updating comment: ">>, FALSE)>>
          IN ViaComments(hs, Try(hs, ClientCall("update_comment", ca), o, Success(o)))

\* delete_comment_on_note_from_pipedrive
delete_comment_on_note_from_pipedrive(a, resp) ==
  LET conv == CommentIds(a)
      error == FirstError(conv, <<"note_id", "comment_id">>)
      ca == [note_id |-> conv.note_id.value, comment_id |-> conv.comment_id.value]
      o == delete_comment(ca, resp)
  IN IF error # <<>> THEN Rejected(error)
     ELSE LET hs == <<ApiErrorClause,
                      Clause("Exception", <<"Unexpected error deleting comment: ">>, FALSE)>>
          IN ViaComments(hs, Try(hs, ClientCall("delete_comment", ca), o, Success(o)))

\* list_comments_on_note_in_pipedrive
list_comments_on_note_in_pipedrive(a, resp) ==
  LET id == convert_id_string(a.note_id, "note_id")
      error == IF id.error # <<>> THEN id.error ELSE OffsetError(a)
      ca == [note_id |-> id.value, start |-> a.start, limit |-> a.limit]
      o == list_comments(ca, resp)
  IN IF error # <<>> THEN Rejected(error)
     ELSE LET hs == <<ApiErrorClause,
                      Clause("Exception", <<"Unexpected error listing comments: ">>, FALSE)>>
          IN ViaComments(hs, ListTry(hs, ClientCall("list_comments", ca), o, "comments", a))

----------------------------------------------------------------------------
(* Tool adapters of users, pipelines, stages and deal labels               *)

\* `except PipedriveAPIError as e` answering str(e) with e.response_data, then
\* `except Exception as e`
GetClauses ==
  <<Clause("PipedriveAPIError", <<>>, TRUE),
    Clause("Exception", <<"An unexpected error occurred: ">>, FALSE)>>

\* the adapter of one object read by id: `entity` ID is required, the
\* conversion of id_str under `field`, the client call, and "not found" for a
\* falsy answer
GetById(entity, field, name, a, o) ==
  LET id == convert_id_string(a.id_str, field) IN
  IF ~Truthy(a.id_str) THEN Rejected(<<entity, " ID is ", "required">>)
  ELSE IF id.error # <<>> THEN Rejected(id.error)
  ELSE Try(GetClauses, ClientCall(name, [f \in {field} |-> id.value]), o,
           IF o.raised = "none" /\ ~DataTruthy(o.result)
           THEN format_tool_response(FALSE, None, <<entity, " with ID {id} not found">>)
           ELSE Success(o))

\* the arguments of the client call of GetById
Converted(a, field) == [f \in {field} |-> convert_id_string(a.id_str, field).value]

\* get_user_from_pipedrive
get_user_from_pipedrive(a, resp) ==
  GetById("User", "user_id", "get_user", a, get_user(Converted(a, "user_id"), resp))

\* get_pipeline_from_pipedrive
get_pipeline_from_pipedrive(a, resp) ==
  GetById("Pipeline", "pipeline_id", "get_pipeline", a,
          get_pipeline(Converted(a, "pipeline_id"), resp))

\* get_stage_from_pipedrive
get_stage_from_pipedrive(a, resp) ==
  GetById("Stage", "stage_id", "get_stage", a, get_stage(Converted(a, "stage_id"), resp))

\* `None if x == "" else x`
NoneIfEmpty(v) == IF v = PyStr(<<>>) THEN None ELSE v

\* `min(limit_id, 500)`
CappedLimit(n) == IF n < 500 THEN n ELSE 500

\* the limit of a cursor-based list adapter: 100 unless given
ToolLimit(limit) ==
  IF IsNone(limit) THEN [value |-> PyInt(100), error |-> <<>>]
  ELSE LET c == convert_id_string(limit, "limit") IN
       IF c.error # <<>> THEN c ELSE [c EXCEPT !.value = PyInt(CappedLimit(c.value.i))]

OrderNr == PyStr(Word(<<"o", "r", "d", "e", "r", "_", "n", "r">>))

\* the checks of sort_by against `allowed` and of sort_direction
SortError(a, allowed) ==
  IF Truthy(a.sort_by) /\ a.sort_by \notin allowed THEN <<"Invalid ", "sort_by", " value">>
  ELSE IF Truthy(a.sort_direction) /\ a.sort_direction \notin {Asc, Desc}
  THEN <<"Invalid ", "sort_direction">>
  ELSE <<>>

\* `{key: items, "next_cursor": next_cursor}`
CursorListing(key, o) ==
  format_tool_response(TRUE,
                       IF o.raised = "none"
                       THEN [key |-> key, items |-> o.result.items,
                             next_cursor |-> o.result.cursor]
                       ELSE None,
                       <<>>)

\* list_pipelines_from_pipedrive
list_pipelines_from_pipedrive(a, resp) ==
  LET b == [f \in DOMAIN a |-> NoneIfEmpty(a[f])]
      limit == ToolLimit(b.limit)
      error == IF limit.error # <<>> THEN limit.error
               ELSE SortError(b, {IdField, UpdateTime, AddTime})
      ca == [b EXCEPT !.limit = limit.value]
      o == list_pipelines(ca, resp)
  IN IF error # <<>> THEN Rejected(error)
     ELSE Try(GetClauses, ClientCall("list_pipelines", ca), o, CursorListing("pipelines", o))

\* list_stages_from_pipedrive
list_stages_from_pipedrive(a, resp) ==
  LET b == [f \in DOMAIN a |-> NoneIfEmpty(a[f])]
      id == IF IsNone(b.pipeline_id_str) THEN [value |-> None, error |-> <<>>]
            ELSE convert_id_string(b.pipeline_id_str, "pipeline_id")
      limit == ToolLimit(b.limit)
      error == IF id.error # <<>> THEN id.error
               ELSE IF limit.error # <<>> THEN limit.error
               ELSE SortError(b, {IdField, UpdateTime, AddTime, OrderNr})
      ca == [pipeline_id |-> id.value, limit |-> limit.value, cursor |-> b.cursor,
             sort_by |-> b.sort_by, sort_direction |-> b.sort_direction]
      o == list_stages(ca, resp)
  IN IF error # <<>> THEN Rejected(error)
     ELSE Try(GetClauses, ClientCall("list_stages", ca), o, CursorListing("stages", o))

\* list_deal_labels_from_pipedrive
list_deal_labels_from_pipedrive(a, resp) ==
  LET o == get_deal_labels(a, resp) IN
  Try(GetClauses, ClientCall("get_deal_labels", a), o, Success(o))

\* create_deal_label_in_pipedrive
create_deal_label_in_pipedrive(a, resp) ==
  LET ca == [label |-> PyStr(Strip(a.label.s))]
      o == create_deal_label(ca, resp)
  IN IF Blank(a.label) THEN Rejected(<<"Label name is ", "required", " and cannot be empty">>)
     ELSE IF StrLen(a.label.s) > MaxLabelLength
     THEN Rejected(<<"Label name must be 255 characters or fewer">>)
     ELSE Try(<<GetClauses[1], Clause("ValueError", <<>>, FALSE), GetClauses[2]>>,
              ClientCall("create_deal_label", ca), o,
              IF o.raised = "none" /\ ~DataTruthy(o.result)
              THEN format_tool_response(
                     FALSE, None, <<"Label was not created - empty response from API">>)
              ELSE Success(o))

----------------------------------------------------------------------------
(* The calls made on the clients                                           *)

\* custom_fields maps: empty, a custom key with a value, a custom key set to
\* None, and keys that coincide with named fields
CustomFieldMaps ==
  <<DictOf(EmptyDict),
    DictOf([k \in {"cf_key"} |-> Text]),
    DictOf([k \in {"cf_key"} |-> None]),
    DictOf([k \in {"status"} |-> Bogus]),
    DictOf([k \in {"title"} |-> EmptyStr])>>

\* A call is given with what the transport does with its request: resp_err
\* (the transport raises), resp_data (the envelope's data) and, for the list
\* operations, resp_ad (the envelope's additional_data).
ResponseFields == {"resp_err", "resp_data", "resp_ad", "resp_success"}

ArgsOf(v) == [f \in DOMAIN v \ ResponseFields |-> v[f]]

ResponseOf(v) ==
  IF v.resp_err THEN ApiError
  ELSE Envelope(IF "resp_success" \in DOMAIN v THEN v.resp_success ELSE "true",
                v.resp_data,
                IF "resp_ad" \in DOMAIN v THEN v.resp_ad ELSE AbsentAd)

ProbabilityInputs ==
  <<PyInt(ProbabilityMin - 1), PyInt(ProbabilityMin), PyInt(ProbabilityMax),
    PyInt(ProbabilityMax + 1)>>

CreateDealBase ==
  [title |-> Text, value |-> None, currency |-> Usd, person_id |-> None,
   org_id |-> None, status |-> Open, expected_close_date |-> None,
   owner_id |-> None, stage_id |-> None, pipeline_id |-> None,
   visible_to |-> None, probability |-> None, custom_fields |-> NoDict,
   resp_err |-> FALSE, resp_data |-> ObjectData(7)]

CreateDealAlt ==
  [title |-> <<EmptyStr, SpaceStr, PaddedText>>, value |-> <<PyInt(1000)>>,
   currency |-> <<EmptyStr>>, person_id |-> <<PyInt(1)>>, org_id |-> <<PyInt(1)>>,
   status |-> <<EmptyStr, Won, Lost, Bogus>>, expected_close_date |-> <<EmptyStr, Date>>,
   owner_id |-> <<PyInt(1)>>, stage_id |-> <<PyInt(1)>>, pipeline_id |-> <<PyInt(1)>>,
   visible_to |-> <<PyInt(3)>>, probability |-> ProbabilityInputs,
   custom_fields |-> CustomFieldMaps,
   resp_err |-> <<TRUE>>, resp_data |-> <<AbsentData>>]

UpdateDealBase ==
  [deal_id |-> PyInt(1), title |-> None, value |-> None, currency |-> None,
   person_id |-> None, org_id |-> None, status |-> None,
   expected_close_date |-> None, owner_id |-> None, stage_id |-> None,
   pipeline_id |-> None, visible_to |-> None, probability |-> None,
   lost_reason |-> None, custom_fields |-> NoDict,
   resp_err |-> FALSE, resp_data |-> ObjectData(7)]

UpdateDealAlt ==
  [deal_id |-> <<PyInt(0)>>, title |-> <<EmptyStr, Text>>, value |-> <<PyInt(1000)>>,
   currency |-> <<Usd>>, person_id |-> <<PyInt(1)>>, org_id |-> <<PyInt(1)>>,
   status |-> <<EmptyStr, Open, Lost, Bogus>>, expected_close_date |-> <<Date>>,
   owner_id |-> <<PyInt(1)>>, stage_id |-> <<PyInt(1)>>, pipeline_id |-> <<PyInt(1)>>,
   visible_to |-> <<PyInt(3)>>, probability |-> ProbabilityInputs,
   lost_reason |-> <<Text>>, custom_fields |-> CustomFieldMaps,
   resp_err |-> <<TRUE>>, resp_data |-> <<AbsentData>>]

CyclesInputs ==
  <<PyInt(0), PyInt(1), PyInt(BillingCyclesMax), PyInt(BillingCyclesMax + 1)>>

AddProductBase ==
  [deal_id |-> PyInt(1), product_id |-> PyInt(1), item_price |-> PyInt(0),
   quantity |-> PyInt(1), tax |-> PyInt(0), comments |-> None,
   discount |-> PyInt(0), discount_type |-> Percentage, tax_method |-> None,
   product_variation_id |-> None, billing_frequency |-> OneTime,
   billing_frequency_cycles |-> None, billing_start_date |-> None,
   resp_err |-> FALSE, resp_data |-> ObjectData(7)]

AddProductAlt ==
  [deal_id |-> <<PyInt(0)>>, product_id |-> <<PyInt(0)>>,
   item_price |-> <<PyInt(-1), PyInt(5)>>, quantity |-> <<PyInt(-1), PyInt(0)>>,
   tax |-> <<PyInt(-1)>>, comments |-> <<EmptyStr, Text>>,
   discount |-> <<PyInt(-1), PyInt(5)>>, discount_type |-> <<EmptyStr, Amount, Bogus>>,
   tax_method |-> <<Inclusive, Bogus>>, product_variation_id |-> <<PyInt(1)>>,
   billing_frequency |-> <<Monthly, Bogus>>, billing_frequency_cycles |-> CyclesInputs,
   billing_start_date |-> <<Date>>,
   resp_err |-> <<TRUE>>, resp_data |-> <<AbsentData>>]

UpdateProductBase ==
  [deal_id |-> PyInt(1), product_attachment_id |-> PyInt(1), item_price |-> None,
   quantity |-> None, tax |-> None, comments |-> None, discount |-> None,
   discount_type |-> None, tax_method |-> None, is_enabled |-> None,
   product_variation_id |-> None, billing_frequency |-> None,
   billing_frequency_cycles |-> None, billing_start_date |-> None,
   resp_err |-> FALSE, resp_data |-> ObjectData(7)]

UpdateProductAlt ==
  [deal_id |-> <<PyInt(0)>>, product_attachment_id |-> <<PyInt(0)>>,
   item_price |-> <<PyInt(-1), PyInt(0)>>, quantity |-> <<PyInt(0), PyInt(1)>>,
   tax |-> <<PyInt(-1), PyInt(0)>>, comments |-> <<Text>>,
   discount |-> <<PyInt(-1), PyInt(0)>>, discount_type |-> <<Amount, Bogus>>,
   tax_method |-> <<NoneStr, Bogus>>, is_enabled |-> <<PyInt(0)>>,
   product_variation_id |-> <<PyInt(0), PyInt(1)>>,
   billing_frequency |-> <<Weekly, Bogus>>, billing_frequency_cycles |-> CyclesInputs,
   billing_start_date |-> <<Date>>,
   resp_err |-> <<TRUE>>, resp_data |-> <<AbsentData>>]

Uuid == PyStr(Word(<<"a", "d", "f", "2", "1", "b", "1", "0">>))

\* note contents around the emptiness and the size checks
ContentInputs ==
  <<EmptyStr, SpaceStr, PyStr(Rep("ideosp", 1)), PaddedText,
    PyStr(Rep("a", MaxContentBytes)), PyStr(Rep("a", MaxContentBytes + 1)),
    PyStr(Rep(" ", MaxContentBytes + 1)),
    PyStr(Rep("e'", MaxContentBytes \div 2)), PyStr(Rep("e'", MaxContentBytes \div 2 + 1)),
    PyStr(Rep("euro", MaxContentBytes \div 3)),
    PyStr(Rep("euro", MaxContentBytes \div 3 + 1)),
    PyStr(Rep("smiley", MaxContentBytes \div 4) \o Rep("a", 1))>>

CreateNoteBase ==
  [content |-> Text, lead_id |-> None, deal_id |-> PyInt(1), person_id |-> None,
   org_id |-> None, project_id |-> None, user_id |-> None,
   pinned_to_lead_flag |-> None, pinned_to_deal_flag |-> None,
   pinned_to_person_flag |-> None, pinned_to_organization_flag |-> None,
   pinned_to_project_flag |-> None,
   resp_err |-> FALSE, resp_data |-> ObjectData(7)]

CreateNoteAlt ==
  [content |-> ContentInputs, lead_id |-> <<Uuid>>, deal_id |-> <<None>>,
   person_id |-> <<PyInt(1)>>, org_id |-> <<PyInt(1)>>, project_id |-> <<PyInt(1)>>,
   user_id |-> <<PyInt(1)>>, pinned_to_lead_flag |-> <<PyInt(1)>>,
   pinned_to_deal_flag |-> <<PyInt(-1), PyInt(0), PyInt(1), PyInt(2)>>,
   pinned_to_person_flag |-> <<PyInt(1), PyInt(2)>>,
   pinned_to_organization_flag |-> <<PyInt(1)>>,
   pinned_to_project_flag |-> <<PyInt(1)>>,
   resp_err |-> <<TRUE>>, resp_data |-> <<AbsentData>>]

UpdateNoteBase ==
  [note_id |-> PyInt(1), content |-> None, lead_id |-> None, deal_id |-> None,
   person_id |-> None, org_id |-> None, project_id |-> None,
   pinned_to_lead_flag |-> None, pinned_to_deal_flag |-> None,
   pinned_to_person_flag |-> None, pinned_to_organization_flag |-> None,
   pinned_to_project_flag |-> None,
   resp_err |-> FALSE, resp_data |-> ObjectData(7)]

UpdateNoteAlt ==
  [note_id |-> <<PyInt(0)>>, content |-> <<EmptyStr, Text>>, lead_id |-> <<Uuid>>,
   deal_id |-> <<PyInt(1)>>, person_id |-> <<PyInt(1)>>, org_id |-> <<PyInt(1)>>,
   project_id |-> <<PyInt(1)>>, pinned_to_lead_flag |-> <<PyInt(1)>>,
   pinned_to_deal_flag |-> <<PyInt(0), PyInt(1)>>,
   pinned_to_person_flag |-> <<PyInt(1)>>,
   pinned_to_organization_flag |-> <<PyInt(1)>>,
   pinned_to_project_flag |-> <<PyInt(1)>>,
   resp_err |-> <<TRUE>>, resp_data |-> <<AbsentData>>]

\* what the transport answers to a list or search request
PageData == <<AbsentData, NullData, ListData(<<>>), ObjectData(7), SearchData(<<3>>)>>
PageAd == <<AbsentAd, NullAd, EmptyAd, CursorAd(None), PaginationAd("true")>>

ListDealsBase ==
  [limit |-> PyInt(100), cursor |-> None, filter_id |-> None, owner_id |-> None,
   person_id |-> None, org_id |-> None, pipeline_id |-> None, stage_id |-> None,
   status |-> None, sort_by |-> None, sort_direction |-> None,
   include_fields |-> NoList, custom_fields_keys |-> NoList,
   updated_since |-> None, updated_until |-> None,
   resp_err |-> FALSE, resp_data |-> ListData(<<1, 2>>), resp_ad |-> CursorAd(CursorY)]

ListDealsAlt ==
  [limit |-> <<PyInt(0), PyInt(1)>>, cursor |-> <<CursorX>>, filter_id |-> <<PyInt(1)>>,
   owner_id |-> <<PyInt(1)>>, person_id |-> <<PyInt(1)>>, org_id |-> <<PyInt(1)>>,
   pipeline_id |-> <<PyInt(1)>>, stage_id |-> <<PyInt(1)>>,
   status |-> <<Open, Bogus>>, sort_by |-> <<IdField>>,
   sort_direction |-> <<Asc, Bogus>>,
   include_fields |-> <<ListOf(<<>>), ListOf(<<FieldA, FieldB>>)>>,
   custom_fields_keys |-> <<ListOf(<<FieldA>>)>>,
   updated_since |-> <<Date>>, updated_until |-> <<Date>>,
   resp_err |-> <<TRUE>>, resp_data |-> PageData, resp_ad |-> PageAd]

SearchDealsBase ==
  [term |-> PyStr(Word(<<"a", "b">>)), fields |-> NoList, exact_match |-> PyInt(0),
   person_id |-> None, organization_id |-> None, status |-> None,
   include_fields |-> NoList, limit |-> PyInt(100), cursor |-> None,
   resp_err |-> FALSE, resp_data |-> SearchData(<<1, 2>>), resp_ad |-> CursorAd(CursorY)]

SearchDealsAlt ==
  [term |-> <<EmptyStr, Text>>, fields |-> <<ListOf(<<FieldA, FieldB>>)>>,
   exact_match |-> <<PyInt(1)>>, person_id |-> <<PyInt(1)>>,
   organization_id |-> <<PyInt(1)>>, status |-> <<Lost, Bogus>>,
   include_fields |-> <<ListOf(<<FieldA>>)>>, limit |-> <<PyInt(0), PyInt(1)>>,
   cursor |-> <<CursorX>>,
   resp_err |-> <<TRUE>>, resp_data |-> <<AbsentData, NullData, ListData(<<1, 2>>), ObjectData(7)>>,
   resp_ad |-> PageAd]

ListPipelinesBase ==
  [limit |-> PyInt(100), cursor |-> None, sort_by |-> None, sort_direction |-> None,
   resp_err |-> FALSE, resp_data |-> ListData(<<1, 2>>), resp_ad |-> CursorAd(CursorY)]

ListPipelinesAlt ==
  [limit |-> <<PyInt(0), PyInt(500)>>, cursor |-> <<EmptyStr, CursorX>>,
   sort_by |-> <<IdField>>, sort_direction |-> <<Asc, Bogus>>,
   resp_err |-> <<TRUE>>, resp_data |-> PageData, resp_ad |-> PageAd]

ListStagesBase ==
  [pipeline_id |-> None, limit |-> PyInt(100), cursor |-> None, sort_by |-> None,
   sort_direction |-> None,
   resp_err |-> FALSE, resp_data |-> ListData(<<1, 2>>), resp_ad |-> CursorAd(CursorY)]

ListStagesAlt ==
  [pipeline_id |-> <<PyInt(0), PyInt(1)>>, limit |-> <<PyInt(0), PyInt(500)>>,
   cursor |-> <<EmptyStr, CursorX>>, sort_by |-> <<IdField>>,
   sort_direction |-> <<Asc, Bogus>>,
   resp_err |-> <<TRUE>>, resp_data |-> PageData, resp_ad |-> PageAd]

\* the baseline call of every operation, and the values its parts may take instead
\* what the transport may do with the request of a read or write of one object
ObjectAnswers == [resp_err |-> <<TRUE>>, resp_data |-> <<AbsentData, NullData>>]

\* what the transport may do with a delete request
DeleteAnswers ==
  [resp_err |-> <<TRUE>>, resp_data |-> <<AbsentData, NullData>>,
   resp_success |-> <<"false", "absent">>]

LabelInputs ==
  <<EmptyStr, SpaceStr, PaddedText, PyStr(Rep("a", MaxLabelLength)),
    PyStr(Rep("a", MaxLabelLength + 1)),
    PyStr(Rep(" ", 1) \o Rep("a", MaxLabelLength - 2) \o Rep(" ", 1)),
    PyStr(Rep(" ", 1) \o Rep("a", MaxLabelLength - 1) \o Rep(" ", 1))>>

OffsetAd ==
  <<AbsentAd, NullAd, EmptyAd, CursorAd(CursorY), PaginationAd("false"),
    PaginationAd("absent"), [EmptyAd EXCEPT !.pg = "null"]>>

\* the baseline call of the read, delete, label, comment and offset-list
\* operations
MoreBase ==
  [get_deal |-> [deal_id |-> PyInt(1), include_fields |-> NoList,
                 custom_fields_keys |-> NoList,
                 resp_err |-> FALSE, resp_data |-> ObjectData(7)],
   delete_deal |-> [deal_id |-> PyInt(1),
                    resp_err |-> FALSE, resp_data |-> ObjectData(1), resp_success |-> "true"],
   delete_product_from_deal |->
     [deal_id |-> PyInt(1), product_attachment_id |-> PyInt(2),
      resp_err |-> FALSE, resp_data |-> ObjectData(2), resp_success |-> "true"],
   get_deal_labels |->
     [resp_err |-> FALSE,
      resp_data |-> ListData(<<OtherField, LabelField(ListOf(<<1, 2>>))>>)],
   create_deal_label |-> [label |-> Text, resp_err |-> FALSE, resp_data |-> ListData(<<7>>)],
   get_pipeline |-> [pipeline_id |-> PyInt(1), resp_err |-> FALSE, resp_data |-> ObjectData(7)],
   get_stage |-> [stage_id |-> PyInt(1), resp_err |-> FALSE, resp_data |-> ObjectData(7)],
   get_user |-> [user_id |-> PyInt(1), resp_err |-> FALSE, resp_data |-> ObjectData(7)],
   get_note |-> [note_id |-> PyInt(1), resp_err |-> FALSE, resp_data |-> ObjectData(7)],
   delete_note |-> [note_id |-> PyInt(1),
                    resp_err |-> FALSE, resp_data |-> ObjectData(1), resp_success |-> "true"],
   list_notes |->
     [user_id |-> None, deal_id |-> None, person_id |-> None, org_id |-> None,
      lead_id |-> None, pinned_to_lead_flag |-> None, pinned_to_deal_flag |-> None,
      pinned_to_person_flag |-> None, pinned_to_organization_flag |-> None,
      start |-> PyInt(0), limit |-> PyInt(100), sort |-> None, start_date |-> None,
      end_date |-> None,
      resp_err |-> FALSE, resp_data |-> ListData(<<1, 2>>), resp_ad |-> PaginationAd("true")],
   add_comment |-> [note_id |-> PyInt(1), content |-> Text,
                    resp_err |-> FALSE, resp_data |-> ObjectData(7)],
   get_comment |-> [note_id |-> PyInt(1), comment_id |-> PyInt(2),
                    resp_err |-> FALSE, resp_data |-> ObjectData(7)],
   update_comment |-> [note_id |-> PyInt(1), comment_id |-> PyInt(2), content |-> Text,
                       resp_err |-> FALSE, resp_data |-> ObjectData(7)],
   delete_comment |-> [note_id |-> PyInt(1), comment_id |-> PyInt(2),
                       resp_err |-> FALSE, resp_data |-> ObjectData(2),
                       resp_success |-> "true"],
   list_comments |-> [note_id |-> PyInt(1), start |-> PyInt(0), limit |-> PyInt(100),
                      resp_err |-> FALSE, resp_data |-> ListData(<<1, 2>>),
                      resp_ad |-> PaginationAd("true")]]

\* the other values each part of these calls is made with
MoreAlt ==
  [get_deal |-> [deal_id |-> <<PyInt(0)>>, include_fields |-> <<ListOf(<<FieldA, FieldB>>)>>,
                 custom_fields_keys |-> <<ListOf(<<FieldA>>)>>] @@ ObjectAnswers,
   delete_deal |-> [deal_id |-> <<PyInt(0), PyInt(3)>>] @@ DeleteAnswers,
   delete_product_from_deal |->
     [deal_id |-> <<PyInt(0)>>, product_attachment_id |-> <<PyInt(0), PyInt(3)>>]
       @@ DeleteAnswers,
   get_deal_labels |->
     [resp_err |-> <<TRUE>>,
      resp_data |-> <<AbsentData, NullData, ListData(<<>>), ListData(<<OtherField>>),
                      ListData(<<LabelField(NoList)>>),
                      ListData(<<LabelField(ListOf(<<>>)), LabelField(ListOf(<<3>>))>>)>>],
   create_deal_label |->
     [label |-> LabelInputs, resp_err |-> <<TRUE>>,
      resp_data |-> <<AbsentData, NullData, ListData(<<>>), ListData(<<8, 9>>)>>],
   get_pipeline |-> [pipeline_id |-> <<PyInt(0)>>] @@ ObjectAnswers,
   get_stage |-> [stage_id |-> <<PyInt(0)>>] @@ ObjectAnswers,
   get_user |-> [user_id |-> <<PyInt(0)>>] @@ ObjectAnswers,
   get_note |-> [note_id |-> <<PyInt(0)>>] @@ ObjectAnswers,
   delete_note |-> [note_id |-> <<PyInt(0), PyInt(3)>>] @@ DeleteAnswers,
   list_notes |->
     [user_id |-> <<PyInt(1)>>, deal_id |-> <<PyInt(1)>>, person_id |-> <<PyInt(1)>>,
      org_id |-> <<PyInt(1)>>, lead_id |-> <<Uuid>>, pinned_to_lead_flag |-> <<PyInt(1)>>,
      pinned_to_deal_flag |-> <<PyInt(0), PyInt(1)>>, pinned_to_person_flag |-> <<PyInt(1)>>,
      pinned_to_organization_flag |-> <<PyInt(1)>>, start |-> <<PyInt(-1), PyInt(50)>>,
      limit |-> <<PyInt(0), PyInt(1), PyInt(500)>>, sort |-> <<EmptyStr, IdField>>,
      start_date |-> <<Date>>, end_date |-> <<Date>>,
      resp_err |-> <<TRUE>>, resp_data |-> <<AbsentData, NullData, ListData(<<>>)>>,
      resp_ad |-> OffsetAd],
   add_comment |-> [note_id |-> <<PyInt(0)>>, content |-> <<EmptyStr>>] @@ ObjectAnswers,
   get_comment |-> [note_id |-> <<PyInt(0)>>, comment_id |-> <<PyInt(0)>>] @@ ObjectAnswers,
   update_comment |->
     [note_id |-> <<PyInt(0)>>, comment_id |-> <<PyInt(0)>>, content |-> <<EmptyStr>>]
       @@ ObjectAnswers,
   delete_comment |->
     [note_id |-> <<PyInt(0)>>, comment_id |-> <<PyInt(0), PyInt(3)>>] @@ DeleteAnswers,
   list_comments |->
     [note_id |-> <<PyInt(0)>>, start |-> <<PyInt(-1), PyInt(50)>>,
      limit |-> <<PyInt(0), PyInt(1), PyInt(500)>>,
      resp_err |-> <<TRUE>>, resp_data |-> <<AbsentData, NullData, ListData(<<>>)>>,
      resp_ad |-> OffsetAd]]

\* the strings the tool adapters are given as identifiers and limits
Id42 == PyStr(Word(<<"4", "2">>))
Id7 == PyStr(Word(<<"7">>))
Id0 == PyStr(Word(<<"0">>))
Id600 == PyStr(Word(<<"6", "0", "0">>))
PaddedId == PyStr(Word(<<" ", "7", " ">>))

IdInputs == <<None, EmptyStr, SpaceStr, Bogus, Id0, Id7>>

\* the baseline call of each tool adapter
ToolBase ==
  [create_note_in_pipedrive |->
     [content |-> Text, lead_id |-> None, deal_id |-> Id42, person_id |-> None,
      org_id |-> None, project_id |-> None, user_id |-> None, pinned |-> None,
      resp_err |-> FALSE, resp_data |-> ObjectData(7)],
   get_note_from_pipedrive |->
     [note_id |-> Id42, resp_err |-> FALSE, resp_data |-> ObjectData(7)],
   update_note_in_pipedrive |->
     [note_id |-> Id42, content |-> Text, lead_id |-> None, deal_id |-> None,
      person_id |-> None, org_id |-> None, project_id |-> None, pinned |-> None,
      resp_err |-> FALSE, resp_data |-> ObjectData(7)],
   delete_note_from_pipedrive |->
     [note_id |-> Id42, resp_err |-> FALSE, resp_data |-> ObjectData(42),
      resp_success |-> "true"],
   list_notes_in_pipedrive |->
     [user_id |-> None, deal_id |-> None, person_id |-> None, org_id |-> None,
      lead_id |-> None, pinned_only |-> PyInt(0), start |-> PyInt(0), limit |-> PyInt(100),
      sort |-> None, start_date |-> None, end_date |-> None,
      resp_err |-> FALSE, resp_data |-> ListData(<<1, 2>>), resp_ad |-> PaginationAd("true")],
   add_comment_to_note_in_pipedrive |->
     [note_id |-> Id42, content |-> Text, resp_err |-> FALSE, resp_data |-> ObjectData(7)],
   update_comment_on_note_in_pipedrive |->
     [note_id |-> Id42, comment_id |-> Id7, content |-> Text,
      resp_err |-> FALSE, resp_data |-> ObjectData(7)],
   delete_comment_on_note_from_pipedrive |->
     [note_id |-> Id42, comment_id |-> Id7,
      resp_err |-> FALSE, resp_data |-> ObjectData(7), resp_success |-> "true"],
   list_comments_on_note_in_pipedrive |->
     [note_id |-> Id42, start |-> PyInt(0), limit |-> PyInt(100),
      resp_err |-> FALSE, resp_data |-> ListData(<<1, 2>>), resp_ad |-> PaginationAd("true")],
   get_user_from_pipedrive |->
     [id_str |-> Id42, resp_err |-> FALSE, resp_data |-> ObjectData(42)],
   get_pipeline_from_pipedrive |->
     [id_str |-> Id42, resp_err |-> FALSE, resp_data |-> ObjectData(42)],
   get_stage_from_pipedrive |->
     [id_str |-> Id42, resp_err |-> FALSE, resp_data |-> ObjectData(42)],
   list_pipelines_from_pipedrive |->
     [limit |-> None, cursor |-> None, sort_by |-> None, sort_direction |-> None,
      resp_err |-> FALSE, resp_data |-> ListData(<<1, 2>>), resp_ad |-> CursorAd(CursorX)],
   list_stages_from_pipedrive |->
     [pipeline_id_str |-> None, limit |-> None, cursor |-> None, sort_by |-> None,
      sort_direction |-> None,
      resp_err |-> FALSE, resp_data |-> ListData(<<1, 2>>), resp_ad |-> CursorAd(CursorX)],
   list_deal_labels_from_pipedrive |-> MoreBase.get_deal_labels,
   create_deal_label_in_pipedrive |-> MoreBase.create_deal_label]

\* the other values each part of these calls is made with
ToolAlt ==
  [create_note_in_pipedrive |->
     [content |-> <<EmptyStr>>, lead_id |-> <<Uuid, SpaceStr>>,
      deal_id |-> <<None, EmptyStr, SpaceStr, Bogus, Id0, PaddedId>>,
      person_id |-> <<Id7, Bogus>>, org_id |-> <<Id7>>, project_id |-> <<Id7>>,
      user_id |-> <<Id7, Bogus>>, pinned |-> <<PyInt(0), PyInt(1)>>] @@ ObjectAnswers,
   get_note_from_pipedrive |-> [note_id |-> IdInputs] @@ ObjectAnswers,
   update_note_in_pipedrive |->
     [note_id |-> IdInputs, content |-> <<None>>, lead_id |-> <<Uuid>>,
      deal_id |-> <<EmptyStr, Bogus, Id0, PaddedId>>, person_id |-> <<Id7, Bogus>>,
      org_id |-> <<Id7>>, project_id |-> <<Id7>>,
      pinned |-> <<PyInt(0), PyInt(1)>>] @@ ObjectAnswers,
   delete_note_from_pipedrive |-> [note_id |-> IdInputs] @@ DeleteAnswers,
   list_notes_in_pipedrive |->
     [user_id |-> <<EmptyStr, SpaceStr, Bogus, Id7>>, deal_id |-> <<Bogus, Id0, Id7>>,
      person_id |-> <<Id7>>, org_id |-> <<Id7>>, lead_id |-> <<Uuid, SpaceStr>>,
      pinned_only |-> <<PyInt(1)>>, start |-> <<PyInt(-1), PyInt(50)>>,
      limit |-> <<PyInt(0), PyInt(500), PyInt(501)>>, sort |-> <<AddTime, Bogus>>,
      start_date |-> <<Date>>, end_date |-> <<Date>>,
      resp_err |-> <<TRUE>>, resp_data |-> <<AbsentData, NullData, ListData(<<>>)>>,
      resp_ad |-> OffsetAd],
   add_comment_to_note_in_pipedrive |->
     [note_id |-> IdInputs, content |-> <<EmptyStr, SpaceStr>>] @@ ObjectAnswers,
   update_comment_on_note_in_pipedrive |->
     [note_id |-> IdInputs, comment_id |-> IdInputs,
      content |-> <<EmptyStr, SpaceStr>>] @@ ObjectAnswers,
   delete_comment_on_note_from_pipedrive |->
     [note_id |-> IdInputs, comment_id |-> IdInputs] @@ DeleteAnswers,
   list_comments_on_note_in_pipedrive |->
     [note_id |-> IdInputs, start |-> <<PyInt(-1), PyInt(50)>>,
      limit |-> <<PyInt(0), PyInt(500), PyInt(501)>>,
      resp_err |-> <<TRUE>>, resp_data |-> <<AbsentData, NullData, ListData(<<>>)>>,
      resp_ad |-> OffsetAd],
   get_user_from_pipedrive |->
     [id_str |-> IdInputs, resp_err |-> <<TRUE>>,
      resp_data |-> <<AbsentData, NullData, EmptyObject>>],
   get_pipeline_from_pipedrive |->
     [id_str |-> IdInputs, resp_err |-> <<TRUE>>,
      resp_data |-> <<AbsentData, NullData, EmptyObject>>],
   get_stage_from_pipedrive |->
     [id_str |-> IdInputs, resp_err |-> <<TRUE>>,
      resp_data |-> <<AbsentData, NullData, EmptyObject>>],
   list_pipelines_from_pipedrive |->
     [limit |-> <<EmptyStr, SpaceStr, Bogus, Id0, Id7, Id600>>,
      cursor |-> <<EmptyStr, CursorY>>, sort_by |-> <<EmptyStr, IdField, OrderNr>>,
      sort_direction |-> <<Asc, Bogus>>,
      resp_err |-> <<TRUE>>, resp_data |-> <<AbsentData, NullData>>,
      resp_ad |-> <<AbsentAd, NullAd, EmptyAd>>],
   list_stages_from_pipedrive |->
     [pipeline_id_str |-> <<EmptyStr, SpaceStr, Bogus, Id0, Id7>>,
      limit |-> <<EmptyStr, Bogus, Id0, Id7, Id600>>,
      cursor |-> <<EmptyStr, CursorY>>, sort_by |-> <<OrderNr, Bogus>>,
      sort_direction |-> <<Desc, Bogus>>,
      resp_err |-> <<TRUE>>, resp_data |-> <<AbsentData, NullData>>,
      resp_ad |-> <<AbsentAd, NullAd, EmptyAd>>],
   list_deal_labels_from_pipedrive |-> MoreAlt.get_deal_labels,
   create_deal_label_in_pipedrive |-> MoreAlt.create_deal_label]

Base ==
  [create_deal |-> CreateDealBase, update_deal |-> UpdateDealBase,
   add_product_to_deal |-> AddProductBase,
   update_product_in_deal |-> UpdateProductBase,
   list_deals |-> ListDealsBase, search_deals |-> SearchDealsBase,
   list_pipelines |-> ListPipelinesBase, list_stages |-> ListStagesBase,
   create_note |-> CreateNoteBase, update_note |-> UpdateNoteBase] @@ MoreBase @@ ToolBase

Alt ==
  [create_deal |-> CreateDealAlt, update_deal |-> UpdateDealAlt,
   add_product_to_deal |-> AddProductAlt,
   update_product_in_deal |-> UpdateProductAlt,
   list_deals |-> ListDealsAlt, search_deals |-> SearchDealsAlt,
   list_pipelines |-> ListPipelinesAlt, list_stages |-> ListStagesAlt,
   create_note |-> CreateNoteAlt, update_note |-> UpdateNoteAlt] @@ MoreAlt @@ ToolAlt

Operations == DOMAIN Base

\* the parts of a call of each operation, in a fixed order
Parts == [o \in Operations |-> SetToSeq(DOMAIN Alt[o])]

\* the arguments of the call, and the transport's behaviour on its request
args == ArgsOf(call)
response == ResponseOf(call)

\* a caller starts the baseline call of an operation
Begin ==
  /\ pc = "idle"
  /\ \E o \in Operations :
       /\ op' = o
       /\ call' = Base[o]
  /\ pc' = "calling"
  /\ UNCHANGED <<varied, last, raised, message, requests, result, calls>>

\* the caller changes one more part of the call
Vary ==
  /\ pc = "calling"
  /\ varied < MaxVaried
  /\ \E k \in (last + 1)..Len(Parts[op]) :
       LET f == Parts[op][k] IN
       \E m \in 1..Len(Alt[op][f]) :
         /\ call' = [call EXCEPT ![f] = Alt[op][f][m]]
         /\ last' = k
  /\ varied' = varied + 1
  /\ UNCHANGED <<pc, op, raised, message, requests, result, calls>>

\* one client call, from its arguments to its return or its exception
Invoke(name, out) ==
  /\ pc = "calling"
  /\ op = name
  /\ pc' = "done"
  /\ raised' = out.raised
  /\ message' = out.message
  /\ requests' = out.requests
  /\ result' = out.result
  /\ calls' = IF "calls" \in DOMAIN out THEN out.calls ELSE <<>>
  /\ UNCHANGED <<op, call, varied, last>>

CreateDeal == Invoke("create_deal", create_deal(args, response))

UpdateDeal == Invoke("update_deal", update_deal(args, response))

AddProductToDeal == Invoke("add_product_to_deal", add_product_to_deal(args, response))

UpdateProductInDeal ==
  Invoke("update_product_in_deal", update_product_in_deal(args, response))

ListDeals == Invoke("list_deals", list_deals(args, response))

SearchDeals == Invoke("search_deals", search_deals(args, response))

ListPipelines == Invoke("list_pipelines", list_pipelines(args, response))

ListStages == Invoke("list_stages", list_stages(args, response))

CreateNote == Invoke("create_note", create_note(args, response))

UpdateNote == Invoke("update_note", update_note(args, response))

\* the caller has the outcome; the client keeps nothing of the call
Done ==
  /\ pc = "done"
  /\ pc' = "idle"
  /\ op' = "none"
  /\ call' = <<>>
  /\ varied' = 0
  /\ last' = 0
  /\ raised' = "none"
  /\ message' = {}
  /\ requests' = <<>>
  /\ result' = None
  /\ calls' = <<>>

Init ==
  /\ pc = "idle"
  /\ op = "none"
  /\ call = <<>>
  /\ varied = 0
  /\ last = 0
  /\ raised = "none"
  /\ message = {}
  /\ requests = <<>>
  /\ result = None
  /\ calls = <<>>

Next ==
  \/ Begin
  \/ Vary
  \/ CreateDeal
  \/ UpdateDeal
  \/ AddProductToDeal
  \/ UpdateProductInDeal
  \/ ListDeals
  \/ SearchDeals
  \/ ListPipelines
  \/ ListStages
  \/ CreateNote
  \/ UpdateNote
  \/ Invoke("get_deal", get_deal(args, response))
  \/ Invoke("delete_deal", delete_deal(args, response))
  \/ Invoke("delete_product_from_deal", delete_product_from_deal(args, response))
  \/ Invoke("get_deal_labels", get_deal_labels(args, response))
  \/ Invoke("create_deal_label", create_deal_label(args, response))
  \/ Invoke("get_pipeline", get_pipeline(args, response))
  \/ Invoke("get_stage", get_stage(args, response))
  \/ Invoke("get_user", get_user(args, response))
  \/ Invoke("get_note", get_note(args, response))
  \/ Invoke("delete_note", delete_note(args, response))
  \/ Invoke("list_notes", list_notes(args, response))
  \/ Invoke("add_comment", add_comment(args, response))
  \/ Invoke("get_comment", get_comment(args, response))
  \/ Invoke("update_comment", update_comment(args, response))
  \/ Invoke("delete_comment", delete_comment(args, response))
  \/ Invoke("list_comments", list_comments(args, response))
  \/ Invoke("create_note_in_pipedrive", create_note_in_pipedrive(args, response))
  \/ Invoke("get_note_from_pipedrive", get_note_from_pipedrive(args, response))
  \/ Invoke("update_note_in_pipedrive", update_note_in_pipedrive(args, response))
  \/ Invoke("delete_note_from_pipedrive", delete_note_from_pipedrive(args, response))
  \/ Invoke("list_notes_in_pipedrive", list_notes_in_pipedrive(args, response))
  \/ Invoke("add_comment_to_note_in_pipedrive", add_comment_to_note_in_pipedrive(args, response))
  \/ Invoke("update_comment_on_note_in_pipedrive", update_comment_on_note_in_pipedrive(args, response))
  \/ Invoke("delete_comment_on_note_from_pipedrive", delete_comment_on_note_from_pipedrive(args, response))
  \/ Invoke("list_comments_on_note_in_pipedrive", list_comments_on_note_in_pipedrive(args, response))
  \/ Invoke("get_user_from_pipedrive", get_user_from_pipedrive(args, response))
  \/ Invoke("get_pipeline_from_pipedrive", get_pipeline_from_pipedrive(args, response))
  \/ Invoke("get_stage_from_pipedrive", get_stage_from_pipedrive(args, response))
  \/ Invoke("list_pipelines_from_pipedrive", list_pipelines_from_pipedrive(args, response))
  \/ Invoke("list_stages_from_pipedrive", list_stages_from_pipedrive(args, response))
  \/ Invoke("list_deal_labels_from_pipedrive", list_deal_labels_from_pipedrive(args, response))
  \/ Invoke("create_deal_label_in_pipedrive", create_deal_label_in_pipedrive(args, response))
  \/ Done

Spec == Init /\ [][Next]_vars

----------------------------------------------------------------------------
(* Calls in flight together on one client                                  *)
(* A client method is a coroutine: it runs from its call to                *)
(* `await self.base_client.request(...)`, is suspended there, and runs     *)
(* from the transport's answer to its return. In ConcurrentSpec the        *)
(* variables are kept per call: `calls` holds what each caller asked for   *)
(* and how the transport answers it, `call` the local variables of each    *)
(* coroutine, `pc`, `op`, `raised`, `message`, `requests` and `result` the *)
(* progress and outcome of each call, `varied` the number of calls made    *)
(* and `last` the calls in the order they finished.                        *)

\* at most MaxCalls calls are made on the client
MaxCalls == 2

CallIds == 1..MaxCalls

\* the client method `name` run on arguments a, the transport answering resp
Run(name, a, resp) ==
  CASE name = "update_deal" -> update_deal(a, resp)
    [] name = "create_note" -> create_note(a, resp)
    [] name = "delete_deal" -> delete_deal(a, resp)
    [] name = "list_deals" -> list_deals(a, resp)

\* the calls made together: their method and their arguments and answer
ConcurrentCalls ==
  {[name |-> "update_deal", call |-> [Base.update_deal EXCEPT !.title = Text]],
   [name |-> "update_deal", call |-> Base.update_deal],
   [name |-> "update_deal", call |-> [Base.update_deal EXCEPT !.deal_id = PyInt(2),
                                                              !.status = Won,
                                                              !.resp_err = TRUE]],
   [name |-> "create_note", call |-> Base.create_note],
   [name |-> "create_note", call |-> [Base.create_note EXCEPT !.content = SpaceStr]],
   [name |-> "delete_deal", call |-> [Base.delete_deal EXCEPT !.resp_success = "false"]],
   [name |-> "delete_deal", call |-> [Base.delete_deal EXCEPT !.deal_id = PyInt(2),
                                                              !.resp_success = "false"]],
   [name |-> "list_deals", call |-> [Base.list_deals EXCEPT !.cursor = CursorY]]}

\* a frame shared by every call, as an attribute of the client object would be
SharedFrame(i) == 1

\* where call i keeps its local variables: in the frame of its own coroutine
Frame(i) == i

NotStarted == [name |-> "none", call |-> <<>>]

\* call i is made: it runs up to its transport request, or to the validation
\* error it raises
Start ==
  /\ varied < MaxCalls
  /\ \E c \in ConcurrentCalls :
       LET i == varied + 1
           o == Run(c.name, ArgsOf(c.call), ApiError)
           fails == o.requests = <<>>
       IN /\ calls' = [calls EXCEPT ![i] = c]
          /\ op' = [op EXCEPT ![i] = c.name]
          /\ call' = [call EXCEPT ![Frame(i)] = ArgsOf(c.call)]
          /\ requests' = [requests EXCEPT ![i] = o.requests]
          /\ pc' = [pc EXCEPT ![i] = IF fails THEN "done" ELSE "suspended"]
          /\ raised' = [raised EXCEPT ![i] = IF fails THEN o.raised ELSE "none"]
          /\ message' = [message EXCEPT ![i] = IF fails THEN o.message ELSE {}]
          /\ last' = IF fails THEN Append(last, i) ELSE last
          /\ varied' = i
          /\ UNCHANGED result

\* the transport answers the request of a suspended call, which runs on from
\* its local variables to its return or its exception
Resume ==
  \E i \in CallIds :
    /\ pc[i] = "suspended"
    /\ LET o == Run(op[i], call[Frame(i)], ResponseOf(calls[i].call)) IN
       /\ result' = [result EXCEPT ![i] = o.result]
       /\ raised' = [raised EXCEPT ![i] = o.raised]
       /\ message' = [message EXCEPT ![i] = o.message]
    /\ pc' = [pc EXCEPT ![i] = "done"]
    /\ last' = Append(last, i)
    /\ UNCHANGED <<op, call, calls, requests, varied>>

ConcurrentInit ==
  /\ pc = [i \in CallIds |-> "idle"]
  /\ op = [i \in CallIds |-> "none"]
  /\ calls = [i \in CallIds |-> NotStarted]
  /\ call = [i \in CallIds |-> <<>>]
  /\ varied = 0
  /\ last = <<>>
  /\ raised = [i \in CallIds |-> "none"]
  /\ message = [i \in CallIds |-> {}]
  /\ requests = [i \in CallIds |-> <<>>]
  /\ result = [i \in CallIds |-> None]

ConcurrentNext == Start \/ Resume

ConcurrentSpec == ConcurrentInit /\ [][ConcurrentNext]_vars

----------------------------------------------------------------------------
(* A caller paging through a cursor-based operation                        *)
(* The caller calls the operation without a cursor, and as long as the     *)
(* page it got has a cursor that is not None, calls it again with that     *)
(* cursor. In PagingSpec `op` is the operation paged through, `call` the   *)
(* latest call and the transport's answer to it, `last` the cursor that    *)
(* call was given, `requests` the requests of all calls so far, `result`,  *)
(* `raised` and `message` the outcome of the latest call and `varied` the  *)
(* number of calls made.                                                   *)

\* at most MaxPages pages are asked for
MaxPages == 3

PagedOperations == {"list_deals", "search_deals", "list_pipelines", "list_stages"}

\* what the transport may answer as additional_data: none, null, a mapping
\* without next_cursor, with a null one, and with a string
PagingAnswers ==
  {AbsentAd, NullAd, EmptyAd, CursorAd(None), CursorAd(CursorX), CursorAd(CursorY),
   CursorAd(EmptyStr)}

PageCall(name, a, resp) ==
  CASE name = "list_deals" -> list_deals(a, resp)
    [] name = "search_deals" -> search_deals(a, resp)
    [] name = "list_pipelines" -> list_pipelines(a, resp)
    [] name = "list_stages" -> list_stages(a, resp)

\* the operation called with the baseline arguments and cursor c, the
\* transport answering the baseline data and additional_data ad
PageOf(name, c, ad) == [cursor |-> c, resp_ad |-> ad] @@ Base[name]

\* the call v of operation name is made after the requests rs
Paged(name, v, rs) ==
  LET out == PageCall(name, ArgsOf(v), ResponseOf(v)) IN
  /\ op' = name
  /\ call' = v
  /\ last' = v.cursor
  /\ requests' = rs \o out.requests
  /\ result' = out.result
  /\ raised' = out.raised
  /\ message' = out.message
  /\ varied' = Len(rs) + 1
  /\ pc' = IF out.raised = "none" THEN "returned" ELSE "failed"
  /\ UNCHANGED calls

\* the first call is given no cursor
FirstPage ==
  /\ pc = "idle"
  /\ \E name \in PagedOperations, ad \in PagingAnswers : Paged(name, PageOf(name, None, ad), <<>>)

\* the cursor of the page is the cursor of the next call
NextPage ==
  /\ pc = "returned"
  /\ ~IsNone(result.cursor)
  /\ varied < MaxPages
  /\ \E ad \in PagingAnswers : Paged(op, PageOf(op, result.cursor, ad), requests)

\* a page with cursor None is the last one
EndOfPages ==
  /\ pc = "returned"
  /\ IsNone(result.cursor)
  /\ pc' = "ended"
  /\ UNCHANGED <<op, call, varied, last, raised, message, requests, result, calls>>

PagingInit == Init

\* the caller is done with the pages, or with the error
PagingOver ==
  /\ pc \in {"ended", "failed"}
  /\ pc' = "idle"
  /\ op' = "none"
  /\ call' = <<>>
  /\ varied' = 0
  /\ last' = 0
  /\ raised' = "none"
  /\ message' = {}
  /\ requests' = <<>>
  /\ result' = None
  /\ UNCHANGED calls

PagingNext == FirstPage \/ NextPage \/ EndOfPages \/ PagingOver

PagingSpec == PagingInit /\ [][PagingNext]_vars

----------------------------------------------------------------------------
(* Properties                                                              *)

Returned(o) == pc = "done" /\ op = o
Sent == requests # <<>>
\* the dict handed to the transport by the call
Payload == requests[1].body.d
ValidationFailed == raised \in {"ValueError", "ValidationError"} /\ requests = <<>>
Supplied(ks) == {ks[k] : k \in {j \in 1..Len(ks) : ~IsNone(args[ks[j]])}}
CustomKeys == IF args.custom_fields.isNone THEN {} ELSE DOMAIN args.custom_fields.d

\* the keys the sparse-payload rule asks for: the required fields and the
\* keys of the arguments that are not None
SparseKeys ==
  CASE op = "create_deal" ->
         {"title"} \cup Supplied(<<"value", "currency", "person_id", "org_id", "status",
                                  "expected_close_date">>)
                   \cup Supplied(CreateDealOptionalTail) \cup CustomKeys
    [] op = "update_deal" -> Supplied(UpdateDealOptional) \cup CustomKeys
    [] op = "update_product_in_deal" -> Supplied(UpdateProductOptional)
    [] op = "update_note" -> Supplied(UpdateNoteOptional)

\* C1: the payload create_deal, update_deal, update_product_in_deal and
\* update_note hand to the transport holds exactly the required fields and the
\* keys of the non-null arguments (custom_fields keys included), and none of
\* its keys maps to null.
C1_SparsePayload ==
  pc = "done" /\ Sent
    /\ op \in {"create_deal", "update_deal", "update_product_in_deal", "update_note"}
  => /\ DOMAIN Payload = SparseKeys
     /\ \A k \in DOMAIN Payload : ~IsNone(Payload[k])

UpdateOptional ==
  [update_deal |-> UpdateDealOptional,
   update_product_in_deal |-> UpdateProductOptional,
   update_note |-> UpdateNoteOptional]

UpdateOperations == DOMAIN UpdateOptional

\* an update call that names no field to change
NoFieldToChange ==
  /\ Supplied(UpdateOptional[op]) = {}
  /\ op = "update_deal" => CustomKeys = {}

PositiveIds ==
  CASE op = "update_deal" -> args.deal_id.i > 0
    [] op = "update_product_in_deal" ->
         args.deal_id.i > 0 /\ args.product_attachment_id.i > 0
    [] op = "update_note" -> TRUE

AtLeastOneField ==
  [update_deal |-> "At least one field must be provided for updating a deal.",
   update_product_in_deal |->
     "At least one field must be provided for updating a product in a deal.",
   update_note |-> "At least one field must be provided for update"]

\* C2: update_deal, update_product_in_deal and update_note called with no field
\* to change (every optional argument None, custom_fields None or empty) raise
\* a ValueError and issue no transport request; with positive identifiers the
\* error is 'At least one field must be provided ...'.
C2_EmptyUpdateRejected ==
  pc = "done" /\ op \in UpdateOperations /\ NoFieldToChange
  => /\ raised = "ValueError"
     /\ requests = <<>>
     /\ PositiveIds => message = {AtLeastOneField[op]}

\* an update_deal whose only argument is an empty custom_fields map was rejected
C2_Witness ==
  /\ Returned("update_deal") /\ NoFieldToChange
  /\ args.custom_fields = DictOf(EmptyDict)
  /\ message = {AtLeastOneField["update_deal"]}

\* C3: an update_deal given a lost_reason reaches the transport only with
\* status "lost"; with status omitted or different it raises a ValueError
\* before any request.
C3_LostReasonNeedsLost ==
  Returned("update_deal") /\ ~IsNone(args.lost_reason)
  => /\ Sent => args.status = Lost
     /\ args.status # Lost => ValidationFailed

\* update_deal(status="lost", lost_reason=...) reached the transport
C3_Witness ==
  /\ Returned("update_deal") /\ ~IsNone(args.lost_reason)
  /\ args.status = Lost /\ Sent /\ "lost_reason" \in DOMAIN Payload

\* C4: create_deal and update_deal fail validation, without a request, when
\* probability is below 0 or above 100, and transmit it unchanged otherwise.
C4_ProbabilityRange ==
  pc = "done" /\ op \in {"create_deal", "update_deal"} /\ ~IsNone(args.probability)
  => IF args.probability.i < 0 \/ args.probability.i > 100
     THEN ValidationFailed
     ELSE Sent => Payload["probability"] = args.probability

ProductOperations == {"add_product_to_deal", "update_product_in_deal"}

Given(k) == ~IsNone(args[k])

\* a product argument the claim says is rejected
ProductNumberOutOfRange ==
  \/ Given("item_price") /\ args.item_price.i < 0
  \/ Given("tax") /\ args.tax.i < 0
  \/ Given("discount") /\ args.discount.i < 0
  \/ Given("quantity") /\ args.quantity.i <= 0
  \/ Given("billing_frequency_cycles")
       /\ (args.billing_frequency_cycles.i < 1 \/ args.billing_frequency_cycles.i > 208)

\* the other checks of the product operations pass
ProductOtherwiseValid ==
  /\ args.deal_id.i > 0
  /\ op = "add_product_to_deal" => args.product_id.i > 0
  /\ op = "update_product_in_deal" =>
       /\ args.product_attachment_id.i > 0
       /\ Supplied(UpdateProductOptional) # {}
       /\ Given("product_variation_id") => args.product_variation_id.i > 0
  /\ Given("discount_type") => args.discount_type \in {Percentage, Amount}
  /\ op = "add_product_to_deal" => Given("discount_type")
  /\ Given("tax_method") => args.tax_method \in {Inclusive, Exclusive, NoneStr}
  /\ Given("billing_frequency") =>
       args.billing_frequency \in {OneTime, Weekly, Monthly, Quarterly, SemiAnnually,
                                   Annually}

\* C5: add_product_to_deal and update_product_in_deal raise a ValueError,
\* without a request, for item_price < 0, tax < 0, discount < 0, quantity <= 0
\* and billing_frequency_cycles outside 1..208; every value within these
\* ranges (item_price 0, quantity 1, cycles 1 and 208 included) is accepted.
C5_ProductRanges ==
  pc = "done" /\ op \in ProductOperations
  => /\ ProductNumberOutOfRange => raised = "ValueError" /\ requests = <<>>
     /\ ~ProductNumberOutOfRange /\ ProductOtherwiseValid => Sent

\* add_product_to_deal(item_price=0, quantity=1, billing_frequency_cycles=208)
\* reached the transport
C5_Witness ==
  /\ Returned("add_product_to_deal") /\ Sent
  /\ args.item_price.i = 0 /\ args.quantity.i = 1
  /\ args.billing_frequency_cycles = PyInt(208)
  /\ Payload["billing_frequency_cycles"] = PyInt(208)

\* C6: create_deal, update_deal, list_deals and search_deals raise a
\* validation error, without a request, when status is neither None nor one of
\* open, won, lost.
C6_StatusEnumeration ==
  pc = "done" /\ op \in {"create_deal", "update_deal", "list_deals", "search_deals"}
    /\ ~IsNone(args.status) /\ args.status \notin {Open, Won, Lost}
  => ValidationFailed

ValidContent(v) == Strip(v.s) # <<>> /\ Utf8Len(v.s) <= 100000

AttachmentFields == {"lead_id", "deal_id", "person_id", "org_id", "project_id"}
Attached == {k \in AttachmentFields : ~IsNone(args[k])}

\* what the claim says of a Note built with valid content
OneAttachmentRule ==
  /\ raised # "ValidationError" <=> Cardinality(Attached) = 1
  /\ Cardinality(Attached) = 0 =>
       "Note must be attached to exactly one entity" \in message
  /\ Cardinality(Attached) >= 2 =>
       "Note can only be attached to one entity at a time" \in message
  /\ raised = "ValidationError" => requests = <<>>

\* C7 as stated: create_note with valid content succeeds if and only if exactly
\* one of lead_id, deal_id, person_id, org_id, project_id is given; none fails
\* with 'must be attached to exactly one entity', two or more with 'can only be
\* attached to one entity', and a failure makes no request.
C7_Original ==
  Returned("create_note") /\ ValidContent(args.content) => OneAttachmentRule

PinFlagsInRange ==
  \A k \in 1..Len(PinFlags) : IsNone(args[PinFlags[k]]) \/ args[PinFlags[k]].i \in {0, 1}

\* C7, amended: create_note with valid content and every pinning flag None, 0
\* or 1 succeeds if and only if exactly one of lead_id, deal_id, person_id,
\* org_id, project_id is given; none fails with 'must be attached to exactly
\* one entity', two or more with 'can only be attached to one entity', and a
\* failure makes no request.
C7_ExactlyOneAttachment ==
  Returned("create_note") /\ ValidContent(args.content) /\ PinFlagsInRange
  => OneAttachmentRule

\* a note with two attachments was refused without a request
C7_Witness ==
  /\ Returned("create_note") /\ ValidContent(args.content) /\ PinFlagsInRange
  /\ Cardinality(Attached) = 2
  /\ raised = "ValidationError" /\ requests = <<>>

\* C8: update_note given two or more of lead_id, deal_id, person_id, org_id,
\* project_id fails validation before any request: no update payload with
\* more than one attachment field reaches the transport.
C8_UpdateOneAttachment ==
  Returned("update_note")
  => /\ Cardinality(Attached) >= 2 => ValidationFailed
     /\ Sent => Cardinality(DOMAIN Payload \cap AttachmentFields) <= 1

ContentMessages ==
  {"Note content cannot be empty", "Note content exceeds maximum size of 100KB"}

\* C9: create_note accepts a content if and only if it is not empty or
\* whitespace-only and its UTF-8 encoding has at most 100000 bytes (bytes, not
\* characters); a rejected content makes no request.
C9_ContentBytes ==
  Returned("create_note")
  => /\ message \cap ContentMessages = {} <=> ValidContent(args.content)
     /\ message \cap ContentMessages # {} => raised = "ValidationError" /\ requests = <<>>
     /\ Utf8Len(args.content.s) = 100000 /\ Strip(args.content.s) # <<>>
          => message \cap ContentMessages = {}

\* a content of fewer than 100000 characters and more than 100000 bytes was
\* rejected
C9_Witness ==
  /\ Returned("create_note")
  /\ StrLen(args.content.s) < 100000 /\ Utf8Len(args.content.s) > 100000
  /\ "Note content exceeds maximum size of 100KB" \in message
  /\ requests = <<>>

CursorOperations == {"list_deals", "list_pipelines", "list_stages"}

\* C10: list_deals, list_pipelines and list_stages, answered with a data list L
\* and additional_data carrying next_cursor X, return (L, X); answered with
\* additional_data {}, they return (L, None).
C10_CursorPage ==
  pc = "done" /\ op \in CursorOperations /\ Sent /\ ~response.err
    /\ response.data.t = "list"
  => /\ response.ad.t = "dict" /\ response.ad.has_nc /\ response.ad.nc.t = "str"
          => raised = "none" /\ result = Page(response.data, response.ad.nc)
     /\ response.ad = EmptyAd => raised = "none" /\ result = Page(response.data, None)

\* list_pipelines returned the two items and the cursor of the answer
C10_Witness ==
  /\ Returned("list_pipelines")
  /\ response.data = ListData(<<1, 2>>) /\ response.ad = CursorAd(CursorY)
  /\ result = Page(ListData(<<1, 2>>), CursorY)

\* what the claim expects search_deals to return for the answer's data
ExpectedSearchItems ==
  IF response.data.t = "dict" /\ response.data.has_items
  THEN ListData(response.data.items)
  ELSE ListData(<<>>)

\* C11: search_deals returns the list at data.items of the answer, never the
\* outer data object, and an empty list when data is not a mapping or has no
\* items key.
C11_SearchUnwrap ==
  Returned("search_deals") /\ Sent /\ ~response.err
  => /\ raised = "none"
     /\ result.items = ExpectedSearchItems
     /\ response.data.t = "dict" => result.items # response.data

\* search_deals answered with {data: {items: [1, 2]}} returned [1, 2]
C11_Witness ==
  /\ Returned("search_deals")
  /\ response.data = SearchData(<<1, 2>>)
  /\ result.items = ListData(<<1, 2>>)

DeleteOperations == {"delete_deal", "delete_product_from_deal", "delete_note", "delete_comment"}

\* the identifier of the object a delete call removes
DeletedId ==
  CASE op = "delete_deal" -> args.deal_id.i
    [] op = "delete_product_from_deal" -> args.product_attachment_id.i
    [] op = "delete_note" -> args.note_id.i
    [] op = "delete_comment" -> args.comment_id.i

\* C12: delete_deal, delete_product_from_deal, delete_note and delete_comment,
\* answered with success false, do not raise and return
\* {id: <the deleted id>, error_details: <the raw answer>}; answered with
\* success true they return the answer's data.
C12_DeleteOutcome ==
  pc = "done" /\ op \in DeleteOperations /\ Sent /\ ~response.err
  => /\ raised = "none"
     /\ response.success = "true" /\ response.data.t # "absent" => result = response.data
     /\ response.success = "false"
          => /\ result.t = "error_details"
             /\ result.id = DeletedId
             /\ result.error_details = response

\* the names create_deal_label sent
SentLabels == requests[1].body.l

Trimmed(s) == s # <<>> /\ ~IsSpace(Head(s).c) /\ ~IsSpace(s[Len(s)].c)

\* C13: create_deal_label transmits a single-element list [{label: <name>}]
\* whose name is the given one trimmed, non-empty and at most 255 characters
\* long; an empty, whitespace-only or longer name is rejected without a
\* request; the result is the first element of the answer's data list, or an
\* empty mapping when that list is empty.
C13_LabelCreation ==
  Returned("create_deal_label")
  => /\ Sent => /\ requests[1].kw = "json_payload"
                /\ Len(SentLabels) = 1
                /\ SentLabels[1].label.s = Strip(args.label.s)
                /\ Trimmed(SentLabels[1].label.s)
                /\ StrLen(SentLabels[1].label.s) \in 1..255
     /\ Strip(args.label.s) = <<>> \/ StrLen(args.label.s) > 255
          => raised = "ValueError" /\ requests = <<>>
     /\ Sent /\ ~response.err /\ response.data.t = "list"
          => result = IF response.data.items = <<>> THEN EmptyObject
                      ELSE ObjectData(response.data.items[1])

\* a padded name was sent trimmed and the first created option returned
C13_Witness ==
  /\ Returned("create_deal_label")
  /\ args.label = PaddedText
  /\ Sent /\ SentLabels[1].label = Text
  /\ result = ObjectData(7)

----------------------------------------------------------------------------
(* Tool adapters                                                           *)

ToolOperations == DOMAIN ToolBase

\* the value is an envelope: success and data, and an error exactly on failure
IsEnvelope(v) ==
  /\ DOMAIN v = {"success", "data", "has_error", "error"}
  /\ v.success \in BOOLEAN
  /\ v.has_error = ~v.success

\* the text is not the empty string
NonEmpty(text) == \E k \in 1..Len(text) : text[k] # ""

\* the resource-client call of the adapter raised
ClientRaised == calls # <<>> /\ calls[Len(calls)].raised # "none"

\* C14: every tool adapter, whatever its arguments and whatever its client
\* call did (returned, raised ValueError, ValidationError, PipedriveAPIError or
\* anything else), returns an envelope and lets no exception through; when the
\* client call raised, the envelope has success false and a non-empty error.
C14_ToolEnvelope ==
  (pc = "done" /\ op \in ToolOperations) =>
    /\ raised = "none"
    /\ IsEnvelope(result)
    /\ ClientRaised => (~result.success /\ NonEmpty(result.error))

\* an adapter whose client call raised a pydantic ValidationError answered
\* with a failure envelope
C14_Witness ==
  /\ pc = "done"
  /\ op = "create_note_in_pipedrive"
  /\ ClientRaised
  /\ calls[1].raised = "ValidationError"
  /\ raised = "none"
  /\ ~result.success

\* an identifier argument of an adapter: its name, the label it is converted
\* under (also the name of the client's parameter), and whether it is required
IdArgument(arg, field, required) == [arg |-> arg, field |-> field, required |-> required]

Optional(f) == IdArgument(f, f, FALSE)
Required(f) == IdArgument(f, f, TRUE)

\* the identifier arguments of each adapter, in the order they are converted
IdArguments ==
  [create_note_in_pipedrive |->
     <<Optional("deal_id"), Optional("person_id"), Optional("org_id"),
       Optional("project_id"), Optional("user_id")>>,
   get_note_from_pipedrive |-> <<Required("note_id")>>,
   update_note_in_pipedrive |->
     <<Required("note_id"), Optional("deal_id"), Optional("person_id"),
       Optional("org_id"), Optional("project_id")>>,
   delete_note_from_pipedrive |-> <<Required("note_id")>>,
   list_notes_in_pipedrive |->
     <<Optional("user_id"), Optional("deal_id"), Optional("person_id"), Optional("org_id")>>,
   add_comment_to_note_in_pipedrive |-> <<Required("note_id")>>,
   update_comment_on_note_in_pipedrive |-> <<Required("note_id"), Required("comment_id")>>,
   delete_comment_on_note_from_pipedrive |-> <<Required("note_id"), Required("comment_id")>>,
   list_comments_on_note_in_pipedrive |-> <<Required("note_id")>>,
   get_user_from_pipedrive |-> <<IdArgument("id_str", "user_id", TRUE)>>,
   get_pipeline_from_pipedrive |-> <<IdArgument("id_str", "pipeline_id", TRUE)>>,
   get_stage_from_pipedrive |-> <<IdArgument("id_str", "stage_id", TRUE)>>,
   list_stages_from_pipedrive |-> <<IdArgument("pipeline_id_str", "pipeline_id", FALSE)>>]
  @@ [o \in ToolOperations |-> <<>>]

\* the integers the decimal strings given to the adapters denote
Numeral == (Id42 :> 42) @@ (Id7 :> 7) @@ (Id0 :> 0) @@ (PaddedId :> 7)

\* the identifier p of the call is a decimal string, or is optional and not given
Usable(p) == args[p.arg] \in DOMAIN Numeral \/ (~p.required /\ IsNone(args[p.arg]))

\* the text has the piece w in it
Contains(text, w) == \E k \in 1..Len(text) : text[k] = w

\* the adapter answered a failure whose error contains w, without calling the client
RejectedWith(w) ==
  /\ IsEnvelope(result)
  /\ ~result.success
  /\ Contains(result.error, w)
  /\ calls = <<>>
  /\ requests = <<>>

\* the arguments of the call that are no identifiers are those of the
\* baseline call, which every adapter accepts
OthersAsBaseline ==
  \A f \in DOMAIN args :
    (\A k \in 1..Len(IdArguments[op]) : IdArguments[op][k].arg # f) => args[f] = Base[op][f]

\* C15: a decimal string given as an identifier reaches the resource client
\* as the integer it denotes: the client is called, with that integer as the
\* parameter. A required identifier that is empty makes the adapter answer a
\* failure whose error contains "required", one that is not a number a failure
\* whose error contains the field name, and in both cases the client is not
\* called. (The other identifiers of the call are decimal strings, or optional
\* and not given.)
C15_IdConversion ==
  (pc = "done" /\ op \in ToolOperations) =>
    LET ps == IdArguments[op] IN
    /\ \A k \in 1..Len(ps) :
         (\A j \in 1..Len(ps) : j # k => Usable(ps[j])) =>
           /\ (ps[k].required /\ Blank(args[ps[k].arg])) => RejectedWith("required")
           /\ args[ps[k].arg] = Bogus => RejectedWith(ps[k].field)
           /\ (args[ps[k].arg] \in DOMAIN Numeral /\ OthersAsBaseline) => calls # <<>>
    /\ calls # <<>> =>
         \A j \in 1..Len(ps) :
           args[ps[j].arg] \in DOMAIN Numeral =>
             calls[1].args[ps[j].field] = PyInt(Numeral[args[ps[j].arg]])

----------------------------------------------------------------------------
(* Calls in flight together                                                *)

\* what call i does when it is the only call made on the client
Alone(i) == Run(calls[i].name, ArgsOf(calls[i].call), ResponseOf(calls[i].call))

----------------------------------------------------------------------------
(* Validation precedes the request; one request per call                   *)

\* the operations of the resource clients
ClientOperations == Operations \ ToolOperations

\* the call has one of the faults the clients validate against
KnownInvalid ==
  \/ op = "create_deal" /\ Blank(args.title)
  \/ op \in {"get_deal", "update_deal", "delete_deal"} /\ args.deal_id.i <= 0
  \/ op \in {"list_deals", "search_deals"} /\ args.limit.i < 1
  \/ op = "create_note" /\ (~ValidContent(args.content) \/ Cardinality(Attached) # 1)

\* C17: a call of a resource-client operation that raises ValueError or
\* ValidationError has issued no transport request; create_deal with an empty
\* or blank title, get/update/delete deal with a non-positive id, list_deals
\* and search_deals with limit < 1 and create_note with invalid content or
\* attachment all raise such an error.
C17_ValidationBeforeRequest ==
  (pc = "done" /\ op \in ClientOperations) =>
    /\ raised \in {"ValueError", "ValidationError"} => requests = <<>>
    /\ KnownInvalid => ValidationFailed

\* delete_deal with a non-positive id raised ValueError without a request
C17_Witness ==
  /\ Returned("delete_deal")
  /\ args.deal_id.i <= 0
  /\ raised = "ValueError"
  /\ requests = <<>>

\* C18: a call of a resource-client operation calls the transport's request
\* at most once, and exactly once when its validation passes; when the
\* transport raises its API error on that request, the call raises that error
\* as it is and issues no second request. (`requests` holds the calls of
\* request, also the one the transport refuses for its keyword.)
C18_OneRequest ==
  (pc = "done" /\ op \in ClientOperations) =>
    /\ Len(requests) <= 1
    /\ raised \notin {"ValueError", "ValidationError"} => Len(requests) = 1
    /\ (response.err /\ requests # <<>> /\ requests[1].kw \in TransportKeywords) =>
         /\ raised = "PipedriveAPIError"
         /\ message = {"API error"}
         /\ Len(requests) = 1
    /\ (requests # <<>> /\ requests[1].kw \notin TransportKeywords) =>
         /\ raised = "TypeError"
         /\ Len(requests) = 1

\* create_deal got the transport's error on its one request and raised it
C18_Witness ==
  /\ Returned("create_deal")
  /\ response.err
  /\ raised = "PipedriveAPIError"
  /\ Len(requests) = 1

----------------------------------------------------------------------------
(* Offset paging                                                           *)

OffsetOperations == {"list_notes", "list_comments"}

\* C19: list_notes and list_comments hand start and limit to the transport as
\* they are given; answered with a data list and an additional_data that is
\* absent or a mapping whose pagination entry is absent or a mapping, they
\* return the pair (data list, has_more), has_more being the pagination
\* entry's more_items_in_collection and False when there is none, and no
\* cursor token.
C19_OffsetPaging ==
  (pc = "done" /\ op \in OffsetOperations) =>
    /\ Len(requests) = 1
    /\ requests[1].kw \in TransportKeywords
    /\ requests[1].body.d.start = args.start
    /\ requests[1].body.d.limit = args.limit
    /\ (~response.err /\ response.ad.t # "null" /\ response.ad.pg # "null") =>
         /\ raised = "none"
         /\ DOMAIN result = {"items", "has_more"}
         /\ result.items = GetDataList(response)
         /\ result.has_more = (response.ad.more = "true")

----------------------------------------------------------------------------
(* Cursor paging                                                           *)

\* the request of the latest call
LatestRequest == requests[Len(requests)]

\* the answer to the latest call has no next_cursor: no additional_data, or a
\* mapping without that entry
NoNextCursorAnswered == response.ad.t = "absent" \/ (response.ad.t = "dict" /\ ~response.ad.has_nc)

\* C20: paging through list_deals, search_deals, list_pipelines or
\* list_stages, the cursor a call returned being the cursor of the next call:
\* the request of that next call has the returned token, unchanged, as its
\* query parameter cursor; a call given no cursor sends no cursor parameter;
\* and answered without next_cursor the call returns None as cursor, after
\* which no further call is made.
C20_CursorThreading ==
  (pc \in {"returned", "ended"}) =>
    /\ LatestRequest.kw = "query_params"
    /\ IsNone(last) => "cursor" \notin DOMAIN LatestRequest.body.d
    /\ ~IsNone(last) =>
         /\ "cursor" \in DOMAIN LatestRequest.body.d
         /\ LatestRequest.body.d.cursor = last
    /\ NoNextCursorAnswered =>
         /\ IsNone(result.cursor)
         /\ ~ENABLED NextPage

----------------------------------------------------------------------------
(* Pinning flags of the note adapters                                      *)

ToolPinFlags == {FlagOf[f] : f \in DOMAIN FlagOf}

\* the attachment identifiers supplied to the adapter: neither None nor blank
SuppliedEntities == {f \in DOMAIN FlagOf : ~Blank(args[f])}

\* the pinning flags the client was called with
PassedFlags == [g \in ToolPinFlags |-> calls[1].args[g]]

\* 1 for pinned True, 0 for pinned False
PinValue == IF Truthy(args.pinned) THEN PyInt(1) ELSE PyInt(0)

\* only the flag of a supplied entity is set, to v
OnlyFlagOfSupplied(v) ==
  \E f \in SuppliedEntities :
    PassedFlags = [g \in ToolPinFlags |-> IF g = FlagOf[f] THEN v ELSE None]

\* C21: update_note_in_pipedrive calls the client with all five pinning
\* flags None when pinned is omitted; with all five equal to 1 (pinned True)
\* or 0 (pinned False) when pinned is given and no attachment identifier is
\* supplied; and with only the flag of the supplied entity set, the other four
\* None, when an attachment identifier is supplied.
C21_UpdatePinning ==
  (pc = "done" /\ op = "update_note_in_pipedrive" /\ calls # <<>>) =>
    /\ IsNone(args.pinned) => PassedFlags = [g \in ToolPinFlags |-> None]
    /\ (~IsNone(args.pinned) /\ SuppliedEntities = {}) =>
         PassedFlags = [g \in ToolPinFlags |-> PinValue]
    /\ (~IsNone(args.pinned) /\ SuppliedEntities # {}) => OnlyFlagOfSupplied(PinValue)

----------------------------------------------------------------------------
(* Conformance to the transport                                            *)

\* the operations that read: their filters and paging parameters are query
\* parameters
ReadOperations ==
  {"list_deals", "search_deals", "get_deal", "list_pipelines", "list_stages",
   "list_notes", "list_comments"}

\* C22: every call a resource client makes of the transport's request hands
\* its body over under json_payload or query_params, or has none, and under
\* no other keyword; an operation that lists, gets or searches hands its
\* filter and paging parameters over under query_params.
C22_TransportConformance ==
  (pc = "done" /\ op \in ClientOperations) =>
    \A k \in 1..Len(requests) :
      /\ requests[k].kw \in TransportKeywords
      /\ (op \in ReadOperations /\ requests[k].kw # "none") => requests[k].kw = "query_params"

----------------------------------------------------------------------------
(* custom_fields merged into the payload of a deal                         *)

\* the named fields of the call that were supplied: the required title of
\* create_deal and every optional argument that is not None
NamedSupplied == {k \in SparseKeys \cap DOMAIN args : ~IsNone(args[k])}

\* a key of custom_fields is the key of a named field that was supplied too
Collision == CustomKeys \cap NamedSupplied # {}

\* C23: create_deal and update_deal given a custom_fields map with a key that
\* is also the key of a supplied named field transmit the custom_fields value
\* under that key, the value of its own argument under every other key, and a
\* payload whose keys are the named non-null keys together with the
\* custom_fields keys.
C23_LastWriteWins ==
  (pc = "done" /\ Sent /\ op \in {"create_deal", "update_deal"} /\ Collision) =>
    /\ DOMAIN Payload = NamedSupplied \cup CustomKeys
    /\ \A k \in CustomKeys \cap DOMAIN Payload : Payload[k] = args.custom_fields.d[k]
    /\ \A k \in (NamedSupplied \ CustomKeys) \cap DOMAIN Payload : Payload[k] = args[k]

----------------------------------------------------------------------------
(* Validity of the transmitted deal payload                                *)

\* C24: every payload create_deal or update_deal transmits has, as
\* transmitted, a title that is not blank, a status among open, won and lost
\* and a probability within 0..100 whenever it has one, and a lost_reason only
\* together with the status "lost" - also when custom_fields keys coincide
\* with named fields.
C24_TransmittedPayloadValid ==
  (pc = "done" /\ Sent /\ op \in {"create_deal", "update_deal"}) =>
    /\ "title" \in DOMAIN Payload => ~Blank(Payload.title)
    /\ "status" \in DOMAIN Payload => Payload.status \in StatusValues
    /\ "probability" \in DOMAIN Payload =>
         Payload.probability.i \in ProbabilityMin..ProbabilityMax
    /\ "lost_reason" \in DOMAIN Payload =>
         "status" \in DOMAIN Payload /\ Payload.status = Lost

----------------------------------------------------------------------------
(* The aggregate client                                                    *)

CommentTools ==
  {"add_comment_to_note_in_pipedrive", "update_comment_on_note_in_pipedrive",
   "delete_comment_on_note_from_pipedrive", "list_comments_on_note_in_pipedrive"}

\* the adapter could not find the operation on the aggregate client
OperationNotFound ==
  /\ calls = <<>>
  /\ ~result.success
  /\ Contains(result.error, "'NoteClient' object has no attribute 'comments'")

\* the arguments of the call are valid: decimal identifiers and the baseline
\* content, start and limit
ValidArguments ==
  /\ \A k \in 1..Len(IdArguments[op]) : args[IdArguments[op][k].arg] \in DOMAIN Numeral
  /\ OthersAsBaseline

\* C25: every client operation a tool adapter invokes is found on the
\* aggregate client; a comment adapter called with valid arguments calls
\* CommentClient, which issues exactly one transport request, and answers a
\* success envelope with the transport's data.
C25_OperationsReachable ==
  (pc = "done" /\ op \in ToolOperations) =>
    /\ ~OperationNotFound
    /\ (op \in CommentTools /\ ValidArguments /\ ~response.err) =>
         /\ Len(calls) = 1
         /\ Len(requests) = 1
         /\ result.success
         /\ op \in {"add_comment_to_note_in_pipedrive", "update_comment_on_note_in_pipedrive"}
              => result.data = response.data

----------------------------------------------------------------------------
(* Answers without data or additional_data                                 *)

ListOperations ==
  {"list_deals", "search_deals", "list_pipelines", "list_stages", "list_notes",
   "list_comments"}

Missing(t) == t \in {"absent", "null"}

\* the result says there is no further page: cursor None, or has_more False
NoFurtherPage ==
  IF op \in OffsetOperations THEN result.has_more = FALSE ELSE IsNone(result.cursor)

\* C26: a list or search operation answered without data or additional_data
\* (absent or null) does not raise; without data it returns an empty item
\* list, without additional_data the marker of no further page. (An
\* additional_data whose pagination entry is null is not a case of the
\* statement.)
C26_MissingParts ==
  (pc = "done" /\ op \in ListOperations /\ Sent /\ ~response.err
     /\ (Missing(response.data.t) \/ Missing(response.ad.t))
     /\ response.ad.pg # "null") =>
    /\ raised = "none"
    /\ Missing(response.data.t) => result.items = ListData(<<>>)
    /\ Missing(response.ad.t) => NoFurtherPage

----------------------------------------------------------------------------
(* Trimming before the length bound                                        *)

\* the name given, trimmed
TrimmedLabel == Strip(args.label.s)

\* C27: DealClient.create_deal_label and create_deal_label_in_pipedrive
\* accept every name whose trimmed form has 1 to 255 characters and transmit
\* that trimmed form; they reject a name only when its trimmed form is empty
\* or longer than 255 characters.
C27_TrimThenBound ==
  (pc = "done" /\ op \in {"create_deal_label", "create_deal_label_in_pipedrive"}) =>
    /\ StrLen(TrimmedLabel) \in 1..MaxLabelLength =>
         /\ Sent
         /\ SentLabels[1].label.s = TrimmedLabel
    /\ Sent => StrLen(TrimmedLabel) \in 1..MaxLabelLength

----------------------------------------------------------------------------
(* The limit of the cursor-based list adapters                             *)

\* the limit the client was called with
PassedLimit == calls[1].args.limit

\* C28: whenever list_pipelines_from_pipedrive or list_stages_from_pipedrive
\* calls the client, the limit it passes is an integer between 1 and 500: 100
\* when limit is omitted or the empty string, otherwise the parsed value, at
\* most 500.
C28_LimitRange ==
  (pc = "done" /\ op \in {"list_pipelines_from_pipedrive", "list_stages_from_pipedrive"}
     /\ calls # <<>>) =>
    /\ PassedLimit.t = "int"
    /\ PassedLimit.i \in 1..500
    /\ (IsNone(args.limit) \/ args.limit = EmptyStr) => PassedLimit.i = 100
    /\ IsNumeric(args.limit.s) =>
         PassedLimit.i = CappedLimit(ParseDigits(args.limit.s, 0))

----------------------------------------------------------------------------
(* pinned_only of the note listing                                         *)

\* the pinning flags NoteClient.list_notes takes
ListPinFlags == ToolPinFlags \ {"pinned_to_project_flag"}

\* C29: whenever list_notes_in_pipedrive is called with pinned_only True and
\* calls the client, the call carries at least one pinning flag equal to 1,
\* whatever the entity filters are.
C29_PinnedOnlyFlag ==
  (pc = "done" /\ op = "list_notes_in_pipedrive" /\ calls # <<>> /\ Truthy(args.pinned_only)) =>
    \E g \in ListPinFlags : calls[1].args[g] = PyInt(1)

----------------------------------------------------------------------------
(* Pinning of a created note                                               *)

\* the identifier arguments of create_note_in_pipedrive
CreateNoteIdentifiers == DOMAIN FlagOf \cup {"user_id"}

\* a lead UUID, or a decimal string
Identifier(f) == IF f = "lead_id" THEN args[f] = Uuid ELSE args[f] \in DOMAIN Numeral

\* C30: create_note_in_pipedrive given pinned True and exactly one attachment
\* identifier (a lead UUID, or a decimal string for deal, person, org or
\* project) calls the client with the pinning flag of that entity equal to 1
\* and the other four None; with pinned False or omitted all five flags are
\* None; and an identifier argument that is empty or blank reaches the client
\* as None.
C30_CreatePinning ==
  (pc = "done" /\ op = "create_note_in_pipedrive" /\ calls # <<>>) =>
    /\ (Truthy(args.pinned) /\ Cardinality(SuppliedEntities) = 1) =>
         \A f \in SuppliedEntities :
           Identifier(f) =>
             PassedFlags = [g \in ToolPinFlags |-> IF g = FlagOf[f] THEN PyInt(1) ELSE None]
    /\ ~Truthy(args.pinned) => PassedFlags = [g \in ToolPinFlags |-> None]
    /\ \A f \in CreateNoteIdentifiers : Blank(args[f]) => IsNone(calls[1].args[f])

====
